---- MODULE Spec2Model ----
(***************************************************************************)
(* Product generation backend: the persisted product state, the status     *)
(* projection polled by the frontend, the set of tracked background tasks  *)
(* and the HTTP handlers and pipeline coroutines that read and write them. *)
(* Handlers are "async def" bodies without an await, so each handler is    *)
(* one atomic action; a pipeline coroutine is one action per segment       *)
(* between two awaits.                                                     *)
(***************************************************************************)
EXTENDS Integers, Sequences, FiniteSets, Bags, TLC

VARIABLES product_state, product_status, background_tasks, DEMO_MOCK_MODE, last,
          packaging_state, packaging_tasks, call

vars == <<product_state, product_status, background_tasks, DEMO_MOCK_MODE, last,
          packaging_state, packaging_tasks, call>>

\* the product side: stored state, status projection, the product router's
\* task set and the demo switch
productVars == <<product_state, product_status, background_tasks, DEMO_MOCK_MODE>>

\* the packaging side: stored packaging state and the packaging router's task set
packagingVars == <<packaging_state, packaging_tasks>>

(* ------------------------------ bounds --------------------------------- *)

\* the tasks tracked at one time: a run in flight and one started over it
\* (_has_active_tasks asks only whether some tracked task is unfinished)
TaskSlots == {"in flight", "started over it"}
\* iteration history length
MaxIter == 2

(* ------------------------------ values --------------------------------- *)

\* Python None for the string-valued optional fields
NONE == "None"

\* Optional[TrellisArtifacts]: <<>> is None, <<a>> is the artifact record a
NoArtifacts == <<>>

\* one request body per endpoint is enough: the prompts differ so that a
\* restored prompt can be told from a kept one
CreatePrompts == {"red mug"}
EditPrompts == {"make it blue"}
SeedPrompts == {"Demo Product"}

TrellisArtifacts(model_file, no_background_images) ==
    << [model_file |-> model_file, no_background_images |-> no_background_images] >>

ProductIteration(type, prompt, images, trellis_output) ==
    [type |-> type, prompt |-> prompt, images |-> images, trellis_output |-> trellis_output]

ProductStatus(status, progress, message, model_file, preview_image) ==
    [status |-> status, progress |-> progress, message |-> message,
     model_file |-> model_file, preview_image |-> preview_image]

\* ProductState(): the defaults of a freshly constructed / cleared state
DefaultProductState ==
    [prompt |-> NONE, latest_instruction |-> NONE, mode |-> "idle", status |-> "idle",
     message |-> NONE, in_progress |-> FALSE, generation_started_at |-> FALSE,
     images |-> <<>>, trellis_output |-> NoArtifacts, iterations |-> <<>>,
     last_error |-> NONE]

\* ProductStatus(): the defaults of the status projection
DefaultProductStatus == ProductStatus("idle", 0, NONE, NONE, NONE)

\* clear_product_state(): the stored state blob is reset to the defaults
clear_product_state == DefaultProductState

(* the last step that ran: for a handler the endpoint, the HTTP status code,  *)
(* the iteration index of a rewind and the fields of the recover body; a     *)
(* coroutine segment, a done callback and a restart have no response         *)
Event(op, code, arg) ==
    [op |-> op, code |-> code, arg |-> arg, recovered |-> FALSE, in_progress |-> FALSE]

NoResponse == Event("none", 0, 0)

\* the panels a client asks about
PanelIds == {"front", "back"}

\* Optional[PanelTexture]: <<>> is None, <<t>> is the texture record t
NoTexture == <<>>

\* PackagingState(): the defaults of a freshly constructed / cleared state;
\* panel_textures gives every panel id its texture, NoTexture for a missing key
DefaultPackagingState ==
    [package_type |-> "box", package_dimensions |-> NONE, in_progress |-> FALSE,
     generating_panel |-> NONE, last_error |-> NONE,
     panel_textures |-> [panel_id \in PanelIds |-> NoTexture]]

\* no service function is being called
NoCall == [fn |-> "none"]

\* the product side at rest, while another part of the backend is looked at
ProductIdle ==
    /\ product_state = DefaultProductState
    /\ product_status = DefaultProductStatus
    /\ background_tasks = EmptyBag
    /\ DEMO_MOCK_MODE = FALSE

\* the packaging side at rest
PackagingIdle ==
    /\ packaging_state = DefaultPackagingState
    /\ packaging_tasks = EmptyBag

(* ------------------------------ fixtures -------------------------------- *)

\* one entry of demo_fixtures.json; has_preview_images tells whether the
\* "preview_images" key is present
Fixture(model_url, has_preview_images, preview_images, no_background_images) ==
    [model_url |-> model_url, has_preview_images |-> has_preview_images,
     preview_images |-> preview_images, no_background_images |-> no_background_images]

NoFixture == Fixture("", FALSE, <<>>, <<>>)

\* what fixtures.get("product_create", {}) can be: absent, the placeholder the
\* file ships with, and captured results with and without preview images
CreateFixtures ==
    { NoFixture,
      Fixture("PASTE_MODEL_URL", TRUE, <<>>, <<>>),
      Fixture("create.glb", TRUE, <<"create.png">>, <<"create_nobg.png">>),
      Fixture("create.glb", TRUE, <<>>, <<>>) }

\* what fixtures.get("product_edit", {}) can be
EditFixtures ==
    { NoFixture,
      Fixture("PASTE_MODEL_URL", TRUE, <<>>, <<>>),
      Fixture("edit.glb", TRUE, <<"edit.png">>, <<"edit_nobg.png">>),
      Fixture("edit.glb", TRUE, <<>>, <<>>) }

\* not data.get("model_url") or data["model_url"].startswith("PASTE")
FixtureUnconfigured(fx) == fx.model_url = "" \/ fx.model_url = "PASTE_MODEL_URL"

(* --------------------------- background tasks --------------------------- *)

\* _background_tasks is a set of task objects; a task object is modelled by
\* the record of its coroutine, so the set is a bag of such records
Tracked == BagToSet(background_tasks)

NoTasks == EmptyBag

\* _has_active_tasks
_has_active_tasks == \E task \in Tracked : ~task.done

\* the environment sends a run request only while the model has room for it
Room == /\ BagCardinality(background_tasks) < Cardinality(TaskSlots)
        /\ Len(product_state.iterations) + BagCardinality(background_tasks) < MaxIter

\* a coroutine object: its arguments, its position, its locals, and the
\* statuses the run has written so far (the labels in order, the last progress
\* value, and whether no progress value was below the one before it)
Task(kind, prompt, mode, images, prior) ==
    [kind |-> kind, prompt |-> prompt, mode |-> mode, images |-> images,
     pc |-> 0, done |-> FALSE, raised |-> FALSE,
     statuses |-> <<"pending">>, progress |-> 0,
     monotone |-> TRUE, prior |-> prior]

\* _track_background_task: add to the set
_track_background_task(task) == background_tasks (+) SetToBag({task})

(* ------------------------------ recovery -------------------------------- *)

RecoveredMessage == "Recovered from interrupted generation"

\* _auto_recover_if_needed: its return value
_auto_recover_if_needed(state) == state.in_progress /\ ~_has_active_tasks

\* _auto_recover_if_needed: the state object after the call
RecoveredState(state) ==
    IF _auto_recover_if_needed(state)
    THEN [state EXCEPT !.in_progress = FALSE, !.status = "idle",
                       !.message = RecoveredMessage, !.generation_started_at = FALSE]
    ELSE state

\* a recovery that saves the state but not the status projection
RecoveredStatus_NotSaved(state) == product_status

\* _auto_recover_if_needed: the stored status projection after the call
RecoveredStatus(state) ==
    IF _auto_recover_if_needed(state)
    THEN ProductStatus("idle", 0, RecoveredMessage, NONE, NONE)
    ELSE product_status

\* a busy check that never tries the recovery
Busy_WithoutRecovery(state) == state.in_progress

\* _ensure_not_busy raises HTTP 409
Busy(state) == state.in_progress /\ ~_auto_recover_if_needed(state)

\* what a create request found: the length of the iteration history, kept
\* with the run it starts (0 with the run of any other request)
Snapshot(state) == Len(state.iterations)

(* ------------------------------ handlers -------------------------------- *)

\* an HTTPException: nothing is saved, the body carries a detail string only
Rejected(op, code) ==
    /\ last' = Event(op, code, 0)
    /\ UNCHANGED <<product_state, product_status, background_tasks, DEMO_MOCK_MODE>>

\* POST /product/create: the state written before the task is spawned
CreateRequestState(state, prompt) ==
    [state EXCEPT !.prompt = prompt, !.latest_instruction = prompt, !.mode = "create",
                  !.status = "pending", !.message = "Preparing product generation",
                  !.in_progress = TRUE, !.generation_started_at = TRUE,
                  !.images = <<>>, !.trellis_output = NoArtifacts,
                  !.iterations = <<>>, !.last_error = NONE]

\* POST /product/create
start_create(prompt) ==
    IF Busy(product_state)
    THEN Rejected("create", 409)
    ELSE /\ Room
         /\ product_state' = CreateRequestState(RecoveredState(product_state), prompt)
         /\ product_status' =
                ProductStatus("pending", 0, "Preparing product generation", NONE, NONE)
         /\ background_tasks' = _track_background_task(
                Task(IF DEMO_MOCK_MODE THEN "mock_create" ELSE "create",
                     prompt, "create", <<>>, Snapshot(product_state)))
         /\ last' = [Event("create", 200, 0) EXCEPT
                        !.recovered = _auto_recover_if_needed(product_state)]
         /\ UNCHANGED DEMO_MOCK_MODE

\* a base check that looks at the prompt only
NoBaseProduct_PromptOnly(state) ==
    ~DEMO_MOCK_MODE /\ (state.prompt = NONE \/ state.prompt = "")

\* not is_mock and (not state.prompt or not state.images)
NoBaseProduct(state) ==
    ~DEMO_MOCK_MODE /\ (state.prompt = NONE \/ state.prompt = "" \/ state.images = <<>>)

\* POST /product/edit: the state written before the task is spawned
EditRequestState(state, prompt) ==
    [state EXCEPT !.latest_instruction = prompt, !.mode = "edit", !.status = "pending",
                  !.message = "Preparing edit request", !.in_progress = TRUE,
                  !.generation_started_at = TRUE]

\* POST /product/edit
start_edit(prompt) ==
    IF Busy(product_state)
    THEN Rejected("edit", 409)
    ELSE IF NoBaseProduct(RecoveredState(product_state))
    THEN /\ product_state' = RecoveredState(product_state)
         /\ product_status' = RecoveredStatus(product_state)
         /\ last' = [Event("edit", 400, 0) EXCEPT
                        !.recovered = _auto_recover_if_needed(product_state)]
         /\ UNCHANGED <<background_tasks, DEMO_MOCK_MODE>>
    ELSE /\ Room
         /\ product_state' = EditRequestState(RecoveredState(product_state), prompt)
         /\ product_status' =
                ProductStatus("pending", 0, "Preparing edit request", NONE, NONE)
         /\ background_tasks' = _track_background_task(
                Task(IF DEMO_MOCK_MODE THEN "mock_edit" ELSE "edit",
                     prompt, "edit", <<>>, 0))
         /\ last' = [Event("edit", 200, 0) EXCEPT
                        !.recovered = _auto_recover_if_needed(product_state)]
         /\ UNCHANGED DEMO_MOCK_MODE

\* TrellisOnlyRequest: mode is an unvalidated str ("remix" stands for every
\* text other than the two the handler knows), images has 1..6 entries
TrellisModes == {"create", "edit", "remix"}
TrellisImages == { <<"upload.png">> }

\* POST /product/trellis-only: the state written before the task is spawned
TrellisOnlyRequestState(state, prompt, images, mode) ==
    [ (IF mode = "create"
       THEN [state EXCEPT !.prompt = prompt, !.iterations = <<>>]
       ELSE [state EXCEPT !.latest_instruction = prompt])
      EXCEPT !.mode = mode, !.status = "pending",
             !.message = "Preparing 3D generation from pre-generated images",
             !.in_progress = TRUE, !.generation_started_at = TRUE,
             !.images = images, !.last_error = NONE ]

\* POST /product/trellis-only
start_trellis_only(prompt, images, mode) ==
    IF Busy(product_state)
    THEN Rejected("trellis_only", 409)
    ELSE /\ Room
         /\ product_state' =
                TrellisOnlyRequestState(RecoveredState(product_state), prompt, images, mode)
         /\ product_status' =
                ProductStatus("pending", 0,
                              "Preparing 3D generation from pre-generated images", NONE, NONE)
         /\ background_tasks' = _track_background_task(
                Task("trellis_only", prompt, mode, images, 0))
         /\ last' = [Event("trellis_only", 200, 0) EXCEPT
                        !.recovered = _auto_recover_if_needed(product_state)]
         /\ UNCHANGED DEMO_MOCK_MODE

\* POST /product/recover
recover_state ==
    /\ product_state' = RecoveredState(product_state)
    /\ product_status' = RecoveredStatus(product_state)
    /\ last' = [Event("recover", 200, 0) EXCEPT
                    !.recovered = _auto_recover_if_needed(product_state),
                    !.in_progress = RecoveredState(product_state).in_progress]
    /\ UNCHANGED <<background_tasks, DEMO_MOCK_MODE>>

\* the iteration indices a client may send
RewindIndices == (0 - 1) .. MaxIter

\* a rewind that restores the iteration and keeps the later ones in the history
RewoundState_KeepsLater(state, iteration_index) ==
    LET target_iteration == state.iterations[iteration_index + 1] IN
    [state EXCEPT !.images = target_iteration.images,
                  !.trellis_output = target_iteration.trellis_output,
                  !.latest_instruction = target_iteration.prompt,
                  !.prompt = IF target_iteration.type = "create"
                             THEN target_iteration.prompt ELSE state.prompt,
                  !.mode = target_iteration.type,
                  !.status = "idle", !.message = "Rewound to previous version",
                  !.in_progress = FALSE, !.last_error = NONE]

\* a rewind that slices the history with [:iteration_index]
RewoundState_OffByOne(state, iteration_index) ==
    LET target_iteration == state.iterations[iteration_index + 1] IN
    [state EXCEPT !.iterations = SubSeq(state.iterations, 1, iteration_index),
                  !.images = target_iteration.images,
                  !.trellis_output = target_iteration.trellis_output,
                  !.latest_instruction = target_iteration.prompt,
                  !.prompt = IF target_iteration.type = "create"
                             THEN target_iteration.prompt ELSE state.prompt,
                  !.mode = target_iteration.type,
                  !.status = "idle", !.message = "Rewound to previous version",
                  !.in_progress = FALSE, !.last_error = NONE]

\* rewind_product: the state saved for a valid index (Python index i is i + 1 here)
RewoundState(state, iteration_index) ==
    LET target_iteration == state.iterations[iteration_index + 1] IN
    [state EXCEPT !.iterations = SubSeq(state.iterations, 1, iteration_index + 1),
                  !.images = target_iteration.images,
                  !.trellis_output = target_iteration.trellis_output,
                  !.latest_instruction = target_iteration.prompt,
                  !.prompt = IF target_iteration.type = "create"
                             THEN target_iteration.prompt ELSE state.prompt,
                  !.mode = target_iteration.type,
                  !.status = "idle", !.message = "Rewound to previous version",
                  !.in_progress = FALSE, !.last_error = NONE]

\* rewind_product: the status payload saved for a valid index
RewoundStatus(state, iteration_index) ==
    LET out == state.iterations[iteration_index + 1].trellis_output IN
    ProductStatus("idle", 0, "Rewound to previous version",
                  IF out # NoArtifacts THEN out[1].model_file ELSE NONE,
                  IF out # NoArtifacts /\ out[1].no_background_images # <<>>
                  THEN out[1].no_background_images[1] ELSE NONE)

\* a rewind that does not look at in_progress
rewind_product_WhileRunning(iteration_index) ==
    IF iteration_index < 0 \/ iteration_index >= Len(product_state.iterations)
    THEN Rejected("rewind", 400)
    ELSE /\ product_state' = RewoundState(product_state, iteration_index)
         /\ product_status' = RewoundStatus(product_state, iteration_index)
         /\ last' = Event("rewind", 200, iteration_index)
         /\ UNCHANGED <<background_tasks, DEMO_MOCK_MODE>>

\* POST /product/rewind/{iteration_index}
rewind_product(iteration_index) ==
    IF product_state.in_progress
    THEN Rejected("rewind", 409)
    ELSE IF iteration_index < 0 \/ iteration_index >= Len(product_state.iterations)
    THEN Rejected("rewind", 400)
    ELSE /\ product_state' = RewoundState(product_state, iteration_index)
         /\ product_status' = RewoundStatus(product_state, iteration_index)
         /\ last' = Event("rewind", 200, iteration_index)
         /\ UNCHANGED <<background_tasks, DEMO_MOCK_MODE>>

\* POST /product/clear
clear_state ==
    /\ product_state' = clear_product_state
    /\ product_status' = ProductStatus("idle", 0, "Product state cleared", NONE, NONE)
    /\ last' = Event("clear", 200, 0)
    /\ UNCHANGED <<background_tasks, DEMO_MOCK_MODE>>

\* SeedProductRequest: preview_images and no_background_images default to []
SeedImages == { <<>>, <<"seed.png">> }

\* POST /demo/seed-product
seed_product(prompt, model_url, preview_images, no_background_images) ==
    LET trellis_output == TrellisArtifacts(model_url, no_background_images)
        iteration == ProductIteration("create", prompt, preview_images, trellis_output)
    IN
    /\ product_state' =
            [clear_product_state EXCEPT !.prompt = prompt, !.mode = "idle",
                !.status = "complete", !.message = "Demo product loaded",
                !.in_progress = FALSE, !.images = preview_images,
                !.trellis_output = trellis_output, !.iterations = <<iteration>>]
    /\ product_status' =
            ProductStatus("complete", 100, "Demo product ready", model_url,
                          IF preview_images # <<>> THEN preview_images[1] ELSE NONE)
    /\ last' = Event("seed_product", 200, 0)
    /\ UNCHANGED <<background_tasks, DEMO_MOCK_MODE>>

\* POST /demo/clear
clear_demo ==
    /\ product_state' = clear_product_state
    /\ packaging_state' = DefaultPackagingState
    /\ last' = Event("clear_demo", 200, 0)
    /\ UNCHANGED <<product_status, background_tasks, DEMO_MOCK_MODE, packaging_tasks>>

\* the process restarts: the module-level task set starts empty again while
\* the persisted state and status survive
Restart ==
    /\ background_tasks # NoTasks
    /\ background_tasks' = NoTasks
    /\ last' = NoResponse
    /\ UNCHANGED <<product_state, product_status, DEMO_MOCK_MODE>>

\* task.add_done_callback(_background_tasks.discard)
Discard(task) ==
    /\ task \in Tracked
    /\ task.done
    /\ background_tasks' = background_tasks (-) SetToBag({task})
    /\ last' = NoResponse
    /\ UNCHANGED <<product_state, product_status, DEMO_MOCK_MODE>>

(* --------------------------- demo mock pipeline ------------------------- *)

\* the record of a status a run wrote: consecutive repeats of a label are one
Wrote(task, status, progress) ==
    [task EXCEPT !.statuses = IF @[Len(@)] = status THEN @ ELSE Append(@, status),
                 !.monotone = @ /\ progress >= task.progress,
                 !.progress = progress]

\* the coroutine returned: its frame, and with it its arguments and locals,
\* is gone; what the run wrote stays on record
Finished(task) ==
    [task EXCEPT !.done = TRUE, !.pc = 0, !.images = <<>>, !.mode = NONE, !.prior = 0]

\* the coroutine ended by an exception nobody catches
Raised(task) == [Finished(task) EXCEPT !.raised = TRUE]

TaskStep(task, after) ==
    /\ background_tasks' = (background_tasks (-) SetToBag({task})) (+) SetToBag({after})
    /\ last' = NoResponse
    /\ UNCHANGED DEMO_MOCK_MODE

\* DemoMockPipelineService._update_status
_update_status(status, progress, message, model_file, preview_image) ==
    ProductStatus(status, progress, message, model_file, preview_image)

\* run_mock_create: the status updates between the sleeps, in order
MOCK_CREATE_STEPS ==
    << <<"generating_images", 10, "Generating product images with AI...">>,
       <<"generating_images", 25, "Creating multiple views...">>,
       <<"generating_model", 45, "Generating 3D model with Trellis...">>,
       <<"generating_model", 65, "Processing geometry and textures...">>,
       <<"generating_model", 85, "Finalizing 3D asset...">> >>

TRELLIS_MOCK_PROGRESS ==
    << <<"Sampling: 21%", 55>>, <<"Sampling: 43%", 65>>, <<"Sampling: 64%", 75>>,
       <<"Sampling: 86%", 85>>, <<"Sampling: 100%", 92>> >>

\* run_mock_edit: the status updates between the sleeps, in order
MOCK_EDIT_STEPS ==
    << <<"generating_images", 15, "Analyzing edit request...">>,
       <<"generating_images", 30, "Generating edited product images...">> >>
    \o [i \in 1..Len(TRELLIS_MOCK_PROGRESS) |->
          <<"generating_model", TRELLIS_MOCK_PROGRESS[i][2], TRELLIS_MOCK_PROGRESS[i][1]>>]

MockSteps(kind) == IF kind = "mock_create" THEN MOCK_CREATE_STEPS ELSE MOCK_EDIT_STEPS

MockFixtures(kind) == IF kind = "mock_create" THEN CreateFixtures ELSE EditFixtures

\* the state saved by the first segment of run_mock_create / run_mock_edit
MockBeginState(state, task) ==
    IF task.kind = "mock_create"
    THEN [state EXCEPT !.prompt = task.prompt, !.mode = "create",
                       !.status = "generating_images",
                       !.message = "Generating product images...",
                       !.in_progress = TRUE, !.generation_started_at = TRUE,
                       !.last_error = NONE]
    ELSE [state EXCEPT !.latest_instruction = task.prompt, !.mode = "edit",
                       !.status = "generating_images",
                       !.message = "Analyzing edit request...",
                       !.in_progress = TRUE, !.generation_started_at = TRUE,
                       !.last_error = NONE]

\* the fixtures are not configured: only the status projection is written
MockUnconfigured(task) ==
    /\ product_status' =
          _update_status("error", 0,
                         IF task.kind = "mock_create" THEN "Demo fixtures not configured"
                         ELSE "Demo edit fixtures not configured", NONE, NONE)
    /\ TaskStep(task, Finished(Wrote(task, "error", 0)))
    /\ UNCHANGED product_state

\* run_mock_create / run_mock_edit up to the first sleep
MockBegin(task) ==
    /\ task \in Tracked
    /\ task.kind \in {"mock_create", "mock_edit"}
    /\ ~task.done /\ task.pc = 0
    /\ \E fx \in MockFixtures(task.kind) :
         IF FixtureUnconfigured(fx)
         THEN MockUnconfigured(task)
         ELSE LET step == MockSteps(task.kind)[1] IN
              /\ product_state' = MockBeginState(product_state, task)
              /\ product_status' = _update_status(step[1], step[2], step[3], NONE, NONE)
              /\ TaskStep(task, [Wrote(task, step[1], step[2]) EXCEPT !.pc = 1])

\* one status update between two sleeps
MockTick(task) ==
    /\ task \in Tracked
    /\ task.kind \in {"mock_create", "mock_edit"}
    /\ ~task.done /\ task.pc >= 1 /\ task.pc < Len(MockSteps(task.kind))
    /\ LET step == MockSteps(task.kind)[task.pc + 1] IN
       /\ product_status' = _update_status(step[1], step[2], step[3], NONE, NONE)
       /\ TaskStep(task, [Wrote(task, step[1], step[2]) EXCEPT !.pc = task.pc + 1])
       /\ UNCHANGED product_state

\* the state saved by the last segment of run_mock_create / run_mock_edit
MockCompleteState(state, task, fx) ==
    LET trellis_output == TrellisArtifacts(fx.model_url, fx.no_background_images)
        iteration == ProductIteration(IF task.kind = "mock_create" THEN "create" ELSE "edit",
                                      task.prompt, fx.preview_images, trellis_output)
        s == IF task.kind = "mock_edit"
             THEN [state EXCEPT !.latest_instruction = task.prompt] ELSE state
    IN [s EXCEPT !.mode = "idle", !.status = "complete",
                 !.message = IF task.kind = "mock_create" THEN "3D asset generated"
                             ELSE "Edit complete",
                 !.in_progress = FALSE, !.generation_started_at = FALSE,
                 !.images = fx.preview_images,
                 !.trellis_output = trellis_output,
                 !.iterations = Append(@, iteration)]

\* data.get("preview_images", [None])[0] raises IndexError on an empty list
PreviewRaises(fx) == fx.has_preview_images /\ fx.preview_images = <<>>

\* run_mock_create / run_mock_edit after the last sleep. The fixture entry was
\* read before the first sleep and passed the configured check there; nothing
\* reads its lists before this segment, so their content is drawn here.
MockComplete(task) ==
    /\ task \in Tracked
    /\ task.kind \in {"mock_create", "mock_edit"}
    /\ ~task.done /\ task.pc = Len(MockSteps(task.kind))
    /\ \E fx \in {f \in MockFixtures(task.kind) : ~FixtureUnconfigured(f)} :
         /\ product_state' = MockCompleteState(product_state, task, fx)
         /\ IF PreviewRaises(fx)
            THEN /\ UNCHANGED product_status
                 /\ TaskStep(task, Raised(task))
            ELSE /\ product_status' =
                      _update_status("complete", 100,
                          IF task.kind = "mock_create" THEN "3D asset generated"
                          ELSE "Edit complete",
                          fx.model_url,
                          IF fx.has_preview_images THEN fx.preview_images[1]
                          ELSE NONE)
                 /\ TaskStep(task, Finished(Wrote(task, "complete", 100)))

(* ------------------------------ real pipeline -------------------------- *)

\* what the image client returned for a run: a non-empty list
GeneratedImages(task) == IF task.kind = "create" THEN <<"gen.png">> ELSE <<"gen_edit.png">>

\* the pipeline boundary caught an exception: the error is written into the
\* state and the status, nothing else of the state is touched
PipelineError(task, message) ==
    /\ product_state' =
          [product_state EXCEPT !.status = "error", !.message = message,
                                !.in_progress = FALSE, !.generation_started_at = FALSE,
                                !.last_error = message]
    /\ product_status' = ProductStatus("error", task.progress, message, NONE, NONE)
    /\ TaskStep(task, Finished(Wrote(task, "error", task.progress)))

\* run_create / run_edit / run_trellis_only up to the first network call
PipelineBegin(task) ==
    /\ task \in Tracked
    /\ task.kind \in {"create", "edit", "trellis_only"}
    /\ ~task.done /\ task.pc = 0
    /\ IF task.kind = "trellis_only"
       THEN /\ product_state' =
                 [product_state EXCEPT !.status = "generating_model",
                                       !.message = "Generating 3D model"]
            /\ product_status' =
                 ProductStatus("generating_model", 50, "Generating 3D model", NONE, NONE)
            /\ TaskStep(task, [Wrote(task, "generating_model", 50) EXCEPT !.pc = 2])
       ELSE /\ product_state' =
                 [product_state EXCEPT !.status = "generating_images",
                                       !.message = "Generating product images"]
            /\ product_status' =
                 ProductStatus("generating_images", 10, "Generating product images",
                               NONE, NONE)
            /\ TaskStep(task, [Wrote(task, "generating_images", 10) EXCEPT !.pc = 1])

\* the image generation call returned: images, or none at all
PipelineImages(task) ==
    /\ task \in Tracked
    /\ task.kind \in {"create", "edit"}
    /\ ~task.done /\ task.pc = 1
    /\ \/ /\ product_state' =
                 [product_state EXCEPT !.status = "generating_model",
                                       !.message = "Generating 3D model"]
          /\ product_status' =
                 ProductStatus("generating_model", 50, "Generating 3D model", NONE, NONE)
          /\ TaskStep(task, [Wrote(task, "generating_model", 50) EXCEPT
                             !.pc = 2, !.images = GeneratedImages(task)])
       \/ PipelineError(task, "Image generation failed")

\* the mesh generation call returned: a model file, or it raised
PipelineMesh(task) ==
    /\ task \in Tracked
    /\ LET trellis_output == TrellisArtifacts("gen.glb", <<>>)
           iteration == ProductIteration(task.mode, task.prompt, task.images, trellis_output)
       IN
       /\ task.kind \in {"create", "edit", "trellis_only"}
       /\ ~task.done /\ task.pc = 2
       /\ \/ /\ product_state' =
                    [product_state EXCEPT !.mode = "idle", !.status = "complete",
                        !.message = "3D asset generated", !.in_progress = FALSE,
                        !.generation_started_at = FALSE, !.images = task.images,
                        !.trellis_output = trellis_output,
                        !.iterations = Append(@, iteration)]
             /\ product_status' =
                    ProductStatus("complete", 100, "3D asset generated", "gen.glb", NONE)
             /\ TaskStep(task, Finished(Wrote(task, "complete", 100)))
          \/ PipelineError(task, "Failed to generate 3D asset")

(* ---------------------------- specification ----------------------------- *)

Init ==
    /\ product_state = DefaultProductState
    /\ product_status = DefaultProductStatus
    /\ background_tasks = NoTasks
    /\ DEMO_MOCK_MODE \in BOOLEAN
    /\ last = NoResponse
    /\ PackagingIdle
    /\ call = NoCall

Next ==
    \/ /\ \E prompt \in CreatePrompts : start_create(prompt)
       /\ UNCHANGED <<packagingVars, call>>
    \/ /\ \E prompt \in EditPrompts : start_edit(prompt)
       /\ UNCHANGED <<packagingVars, call>>
    \/ /\ \E prompt \in CreatePrompts, images \in TrellisImages, mode \in TrellisModes :
             start_trellis_only(prompt, images, mode)
       /\ UNCHANGED <<packagingVars, call>>
    \/ /\ recover_state
       /\ UNCHANGED <<packagingVars, call>>
    \/ /\ \E iteration_index \in RewindIndices : rewind_product(iteration_index)
       /\ UNCHANGED <<packagingVars, call>>
    \/ /\ clear_state
       /\ UNCHANGED <<packagingVars, call>>
    \/ /\ \E prompt \in SeedPrompts, preview_images \in SeedImages :
             seed_product(prompt, "seed.glb", preview_images, <<>>)
       /\ UNCHANGED <<packagingVars, call>>
    \/ /\ clear_demo
       /\ UNCHANGED call
    \/ /\ Restart
       /\ UNCHANGED <<packagingVars, call>>
    \/ /\ \E task \in Tracked : Discard(task)
       /\ UNCHANGED <<packagingVars, call>>
    \/ /\ \E task \in Tracked : MockBegin(task)
       /\ UNCHANGED <<packagingVars, call>>
    \/ /\ \E task \in Tracked : MockTick(task)
       /\ UNCHANGED <<packagingVars, call>>
    \/ /\ \E task \in Tracked : MockComplete(task)
       /\ UNCHANGED <<packagingVars, call>>
    \/ /\ \E task \in Tracked : PipelineBegin(task)
       /\ UNCHANGED <<packagingVars, call>>
    \/ /\ \E task \in Tracked : PipelineImages(task)
       /\ UNCHANGED <<packagingVars, call>>
    \/ /\ \E task \in Tracked : PipelineMesh(task)
       /\ UNCHANGED <<packagingVars, call>>

Spec == Init /\ [][Next]_vars

(* ------------------------------- claims -------------------------------- *)

\* the unfinished tasks among the tracked ones, with their multiplicity
LiveTasks ==
    [task \in {x \in Tracked : ~x.done} |-> CopiesIn(task, background_tasks)]

\* one unfinished task ran a segment in this step and is the record after now
Stepped(task, after) ==
    /\ task \in Tracked /\ ~task.done /\ after # task
    /\ background_tasks' = (background_tasks (-) SetToBag({task})) (+) SetToBag({after})

\* the run of the task ended in this step
Ended(task, after) == Stepped(task, after) /\ after.done

LastStatus(task) == task.statuses[Len(task.statuses)]

CreateRun(task) == task.kind \in {"mock_create", "create"}

\* C1: at most one product generation run is live at any moment: there are
\* never two unfinished background pipeline tasks.
C1_AtMostOneLiveRun == BagCardinality(LiveTasks) <= 1

RunRequest ==
    \/ \E prompt \in CreatePrompts : start_create(prompt)
    \/ \E prompt \in EditPrompts : start_edit(prompt)
    \/ \E prompt \in CreatePrompts, images \in TrellisImages, mode \in TrellisModes :
          start_trellis_only(prompt, images, mode)

\* the step answered a create, edit or trellis-only request
RunAnswered == last'.op \in {"create", "edit", "trellis_only"}

RunRejectedBusy ==
    /\ last'.code = 409
    /\ UNCHANGED <<product_state, product_status, background_tasks>>

RunAccepted ==
    /\ last'.code = 200
    /\ BagCardinality(LiveTasks') = BagCardinality(LiveTasks) + 1
    /\ product_state'.in_progress /\ product_state'.status = "pending"
    /\ product_status'.status = "pending" /\ product_status'.progress = 0

\* the stale flag was cleared and saved, and the request then failed validation
EditRejectedAfterRecovery ==
    /\ last'.code = 400
    /\ UNCHANGED background_tasks
    /\ ~product_state'.in_progress /\ product_state'.status = "idle"
    /\ product_status'.status = "idle" /\ product_status'.progress = 0

\* C2 as stated: a create, edit or trellis-only request made while in_progress
\* is true is rejected with 409, changing nothing, when some tracked task is not
\* done; otherwise the stale flag is cleared and the request is accepted and
\* starts a new run.
C2_Original ==
    [][ (product_state.in_progress /\ RunAnswered /\ RunRequest) =>
            IF _has_active_tasks THEN RunRejectedBusy ELSE RunAccepted ]_vars

\* C2 amended: as C2, except that an edit request in non-mock mode on a state
\* without a prompt or without images is, after the stale flag was cleared and
\* saved, rejected with 400 and starts no run.
C2_BusyOrRecovered ==
    [][ (product_state.in_progress /\ RunAnswered /\ RunRequest) =>
            IF _has_active_tasks THEN RunRejectedBusy
            ELSE IF /\ \E prompt \in EditPrompts : start_edit(prompt)
                    /\ ~DEMO_MOCK_MODE
                    /\ (product_state.prompt = NONE \/ product_state.images = <<>>)
                 THEN EditRejectedAfterRecovery
                 ELSE RunAccepted ]_vars

\* a run request found a stale flag, cleared it and started a run
C2_Witness ==
    /\ last.op \in {"create", "edit", "trellis_only"}
    /\ last.code = 200 /\ last.recovered
    /\ product_state.in_progress /\ LiveTasks # EmptyBag

StatusRank(status) ==
    CASE status = "pending" -> 0
      [] status = "generating_images" -> 1
      [] status = "generating_model" -> 2
      [] OTHER -> 3

\* C3: a create run begins in pending, writes generating_images and then
\* generating_model in that order (an error may end it at any point), is over
\* only once it wrote complete or error, wrote both generating labels before
\* complete, and never wrote a progress value below the previous one.
C3_CreateRunSequence ==
    \A task \in Tracked :
        CreateRun(task) =>
            /\ task.statuses[1] = "pending"
            /\ \A i \in 1..(Len(task.statuses) - 1) :
                    StatusRank(task.statuses[i]) < StatusRank(task.statuses[i + 1])
            /\ task.done => LastStatus(task) \in {"complete", "error"}
            /\ LastStatus(task) = "complete" =>
                    task.statuses = <<"pending", "generating_images",
                                      "generating_model", "complete">>
            /\ task.monotone

\* C4: a segment of the run in progress that starts with the status label of
\* the full product state equal to that of the status projection, and does not
\* end the run, leaves them equal at the suspension point it reaches: every
\* status change is saved in both.
C4_StateMatchesStatus ==
    [][ \A task \in Tracked, after \in Tracked' :
            ( /\ Stepped(task, after) /\ ~after.done
              /\ BagCardinality(background_tasks) = 1 /\ product_state.in_progress
              /\ product_state.status = product_status.status ) =>
                product_state'.status = product_status'.status ]_vars

\* the run of the task failed as a whole in this step
Failed(task, after) ==
    Ended(task, after) /\ (after.raised \/ LastStatus(after) = "error")

\* C5: when a run fails as a whole the failure is written into the product
\* state (last_error is set), the status becomes error, and no new run starts.
C5_FailureWrittenToState ==
    [][ \A task \in Tracked, after \in Tracked' :
            Failed(task, after) =>
                /\ product_state'.last_error # NONE
                /\ product_state'.status = "error"
                /\ product_status'.status = "error"
                /\ BagCardinality(LiveTasks') < BagCardinality(LiveTasks) ]_vars

\* C6: a create run that ends in error leaves the iteration history that
\* existed before the create request as it was (here: as long as it was). The
\* run is the only tracked one and the one the state records as in progress.
C6_FailedCreateKeepsPrior ==
    [][ \A task \in Tracked, after \in Tracked' :
            ( /\ Ended(task, after) /\ LastStatus(after) = "error"
              /\ CreateRun(task)
              /\ BagCardinality(background_tasks) = 1 /\ product_state.in_progress ) =>
                Len(product_state'.iterations) = task.prior ]_vars

\* C7: rewind(i) with 0 <= i < len(iterations) and no run in progress is
\* accepted, truncates the history to exactly its first i+1 entries (unchanged,
\* in order), sets images and mesh output to those of iteration i, status to
\* idle with progress 0 and in_progress false, and clears last_error.
C7_RewindRestores ==
    [][ \A i \in RewindIndices :
            ( /\ last'.op = "rewind"
              /\ rewind_product(i)
              /\ ~product_state.in_progress
              /\ 0 <= i /\ i < Len(product_state.iterations) ) =>
                /\ last'.code = 200
                /\ Len(product_state'.iterations) = i + 1
                /\ \A k \in 1..(i + 1) :
                        product_state'.iterations[k] = product_state.iterations[k]
                /\ product_state'.images = product_state.iterations[i + 1].images
                /\ product_state'.trellis_output =
                        product_state.iterations[i + 1].trellis_output
                /\ product_state'.status = "idle"
                /\ product_status'.status = "idle" /\ product_status'.progress = 0
                /\ ~product_state'.in_progress
                /\ product_state'.last_error = NONE ]_vars

\* a rewind to the first iteration was answered while the task of a completed
\* edit run, which had appended a second iteration, is still tracked
C7_Witness ==
    /\ last = Event("rewind", 200, 0)
    /\ Len(product_state.iterations) = 1
    /\ product_state.images = product_state.iterations[1].images
    /\ product_state.message = "Rewound to previous version"
    /\ \E task \in Tracked :
            /\ task.kind \in {"mock_edit", "edit"}
            /\ LastStatus(task) = "complete"

\* C8: rewind is rejected with 409 whenever in_progress is true, whatever the
\* index, and with 400 when in_progress is false and the index is outside
\* [0, len(iterations)); a rejected rewind leaves state and status unchanged.
C8_RewindRejected ==
    [][ \A i \in RewindIndices :
            (last'.op = "rewind" /\ rewind_product(i)) =>
                /\ product_state.in_progress => last'.code = 409
                /\ ( /\ ~product_state.in_progress
                     /\ (i < 0 \/ i >= Len(product_state.iterations)) ) =>
                        last'.code = 400
                /\ last'.code \in {400, 409} =>
                        UNCHANGED <<product_state, product_status, background_tasks>> ]_vars

\* a rewind was answered 409 although the history holds an iteration to go to
C8_Witness ==
    /\ last = Event("rewind", 409, 0)
    /\ product_state.in_progress
    /\ Len(product_state.iterations) >= 1

\* C9: POST /product/recover clears the flag (status idle, progress 0,
\* generation_started_at cleared) exactly when in_progress is true and no
\* tracked task is unfinished, and then reports recovered=true, in_progress=
\* false; otherwise it reports recovered=false and changes neither state nor
\* status. It never changes images, mesh output, prompt or history.
C9_RecoverExactlyWhenStale ==
    [][ recover_state =>
            /\ IF product_state.in_progress /\ LiveTasks = EmptyBag
               THEN /\ ~product_state'.in_progress
                    /\ product_state'.status = "idle"
                    /\ ~product_state'.generation_started_at
                    /\ product_status'.status = "idle" /\ product_status'.progress = 0
                    /\ last'.recovered /\ ~last'.in_progress
               ELSE /\ ~last'.recovered
                    /\ last'.in_progress = product_state.in_progress
                    /\ UNCHANGED <<product_state, product_status>>
            /\ product_state'.images = product_state.images
            /\ product_state'.trellis_output = product_state.trellis_output
            /\ product_state'.prompt = product_state.prompt
            /\ product_state'.iterations = product_state.iterations
            /\ UNCHANGED background_tasks ]_vars

\* a recover request found a stale flag and cleared it
C9_Witness ==
    /\ last.op = "recover" /\ last.recovered /\ ~last.in_progress
    /\ ~product_state.in_progress
    /\ product_state.message = RecoveredMessage

\* C10 as stated: an edit request that is not rejected as busy is rejected with
\* 400, starting no run and leaving the product state unchanged, whenever the
\* stored state has no base images.
C10_Original ==
    [][ ( /\ \E prompt \in EditPrompts : start_edit(prompt)
          /\ last'.code # 409
          /\ product_state.images = <<>> ) =>
            /\ last'.code = 400
            /\ UNCHANGED <<product_state, background_tasks>> ]_vars

\* C10 amended: with demo mock mode off, an edit request that is not rejected
\* as busy is rejected with 400 and starts no run whenever the stored state has
\* no base images; the product state is unchanged unless its in_progress flag
\* was stale, and then only the recovery is saved (in_progress false, status
\* idle, generation_started_at cleared, the recovery message).
C10_EditNeedsBaseImages ==
    [][ ( /\ \E prompt \in EditPrompts : start_edit(prompt)
          /\ last'.code # 409
          /\ ~DEMO_MOCK_MODE
          /\ product_state.images = <<>> ) =>
            /\ last'.code = 400
            /\ UNCHANGED background_tasks
            /\ product_state' =
                  IF product_state.in_progress
                  THEN [product_state EXCEPT !.in_progress = FALSE, !.status = "idle",
                            !.message = RecoveredMessage,
                            !.generation_started_at = FALSE]
                  ELSE product_state ]_vars

\* an edit request on a state without images was answered 400
C10_Witness ==
    /\ last.op = "edit" /\ last.code = 400
    /\ ~DEMO_MOCK_MODE
    /\ product_state.images = <<>>

\* C11: a mock edit run starts from pending, writes generating_images, then
\* generating_model, then complete, never going back to an earlier label (an
\* error may end it, as in the real pipeline); it is over only once it wrote
\* complete or error, its progress values never decrease, and complete is
\* written with progress 100.
C11_MockEditSequence ==
    \A task \in Tracked :
        task.kind = "mock_edit" =>
            /\ task.statuses[1] = "pending"
            /\ \A i \in 1..(Len(task.statuses) - 1) :
                    StatusRank(task.statuses[i]) < StatusRank(task.statuses[i + 1])
            /\ task.monotone
            /\ LastStatus(task) = "complete" =>
                    /\ task.progress = 100
                    /\ task.statuses = <<"pending", "generating_images",
                                         "generating_model", "complete">>
            /\ task.done => LastStatus(task) \in {"complete", "error"}

\* C26: when the background task of a run has ended, in complete or in error,
\* the persisted in-progress flag is false. The run is the only tracked one
\* and the one the state records as in progress.
C26_FlagClearedWhenRunEnds ==
    [][ \A task \in Tracked, after \in Tracked' :
            ( /\ Ended(task, after)
              /\ BagCardinality(background_tasks) = 1 /\ product_state.in_progress ) =>
                ~product_state'.in_progress ]_vars

\* C27: in every reachable product state the mode is one of create, edit and
\* idle, whatever requests were made.
C27_ModeIsKnown == product_state.mode \in {"create", "edit", "idle"}

\* C28: whenever no run is in progress and the iteration history is not
\* empty, the current images and the mesh output of the product state are
\* those of the last iteration.
C28_CurrentIsLastIteration ==
    (~product_state.in_progress /\ product_state.iterations # <<>>) =>
        LET latest == product_state.iterations[Len(product_state.iterations)]
        IN  /\ product_state.images = latest.images
            /\ product_state.trellis_output = latest.trellis_output

\* C29: rewind is idempotent and only shrinks the history: right after an
\* accepted rewind(i) a second rewind(i) leaves state and status as they are,
\* a rewind(j) with j > i is rejected with 400 and changes nothing, and a
\* rewind to the last index of any state leaves the history unchanged.
C29_RewindIdempotent ==
    [][ \A j \in RewindIndices :
            (last'.op = "rewind" /\ rewind_product(j)) =>
                /\ last = Event("rewind", 200, j) =>
                        /\ last'.code = 200
                        /\ UNCHANGED <<product_state, product_status>>
                /\ (last.op = "rewind" /\ last.code = 200 /\ last.arg < j) =>
                        /\ last'.code = 400
                        /\ UNCHANGED <<product_state, product_status>>
                /\ j = Len(product_state.iterations) - 1 =>
                        product_state'.iterations = product_state.iterations ]_vars

\* a rewind to an index outside the history was answered 400 in the state an
\* accepted rewind to index 0 had left
C29_Witness ==
    /\ last = Event("rewind", 400, 0)
    /\ Len(product_state.iterations) = 1
    /\ product_state.message = "Rewound to previous version"
    /\ product_state.status = "idle"
    /\ ~product_state.in_progress


(* ------------------------- packaging panel textures --------------------- *)

\* the design prompts of the panel requests
PanelPrompts == {"kraft paper"}

\* PanelTexture(panel_id, texture_url, prompt, dimensions)
PanelTexture(panel_id, texture_url, prompt) ==
    <<[panel_id |-> panel_id, texture_url |-> texture_url, prompt |-> prompt]>>

\* the response of a packaging endpoint: the panel asked about and, for a
\* 200 of the texture endpoint, the texture whose metadata the body carries
PanelResponse(op, code, panel_id, body) ==
    [op |-> op, code |-> code, arg |-> 0, recovered |-> FALSE, in_progress |-> FALSE,
     panel_id |-> panel_id, body |-> body]

\* asyncio.create_task(_generate()) of one request
PanelTask(panel_id, prompt) == [panel_id |-> panel_id, prompt |-> prompt, done |-> FALSE]

PanelTracked == BagToSet(packaging_tasks)

\* the keyword parameters GeminiImageService.generate_product_images accepts
generate_product_images_keywords == {"prompt", "workflow", "image_count", "reference_images"}

\* the keywords PanelGenerationService.generate_panel_texture calls it with
PanelGenerationKeywords ==
    {"prompt", "workflow", "image_count", "reference_images", "is_texture"}

\* how PanelGenerationService.generate_panel_texture ends: a keyword the callee
\* does not accept raises TypeError at the call, before anything is awaited
PanelGenerationOutcomes ==
    IF PanelGenerationKeywords \subseteq generate_product_images_keywords
    THEN {"url", "None", "GeminiError"}
    ELSE {"TypeError"}

\* an error record that also forgets the stored textures
mark_error_DropsTextures(state, message) ==
    {[state EXCEPT !.last_error = message, !.in_progress = FALSE, !.generating_panel = g,
                   !.panel_textures = [panel_id \in PanelIds |-> NoTexture]] :
        g \in {state.generating_panel, NONE}}

\* PackagingState.mark_error(message): records the error and ends the
\* in-progress flag; the generating panel is either kept or reset
mark_error(state, message) ==
    {[state EXCEPT !.last_error = message, !.in_progress = FALSE, !.generating_panel = g] :
        g \in {state.generating_panel, NONE}}

\* POST /packaging/panels/generate
generate_panel_texture(panel_id, prompt) ==
    /\ BagCardinality(packaging_tasks) < Cardinality(TaskSlots)
    /\ packaging_state' = [packaging_state EXCEPT !.package_type = "box",
                                                  !.package_dimensions = "dimensions",
                                                  !.in_progress = TRUE,
                                                  !.generating_panel = panel_id,
                                                  !.last_error = NONE]
    /\ packaging_tasks' = packaging_tasks (+) SetToBag({PanelTask(panel_id, prompt)})
    /\ last' = PanelResponse("generate_panel_texture", 200, panel_id, NoTexture)

\* the state _generate saves for one outcome of the generation service
GeneratedPanelStates(state, task, outcome) ==
    CASE outcome = "url" ->
           {[state EXCEPT !.panel_textures[task.panel_id] =
                              PanelTexture(task.panel_id, "generated.png", task.prompt),
                          !.in_progress = FALSE,
                          !.generating_panel = NONE,
                          !.last_error = NONE]}
      [] outcome = "None" -> mark_error(state, "Texture generation returned no image")
      [] OTHER -> mark_error(state, outcome)

\* the coroutine _generate of one request, from its start to its end
_generate(task) ==
    /\ task \in PanelTracked
    /\ ~task.done
    /\ \E outcome \in PanelGenerationOutcomes :
           packaging_state' \in GeneratedPanelStates(packaging_state, task, outcome)
    /\ packaging_tasks' =
           (packaging_tasks (-) SetToBag({task})) (+) SetToBag({[task EXCEPT !.done = TRUE]})
    /\ last' = NoResponse

\* task.add_done_callback(_background_tasks.discard)
PanelDiscard(task) ==
    /\ task \in PanelTracked
    /\ task.done
    /\ packaging_tasks' = packaging_tasks (-) SetToBag({task})
    /\ last' = NoResponse
    /\ UNCHANGED packaging_state

\* GET /packaging/panels/{panel_id}/texture
get_panel_texture(panel_id) ==
    LET state == packaging_state
        texture == state.panel_textures[panel_id]
    IN  /\ last' = IF texture = NoTexture
                   THEN IF state.in_progress /\ state.generating_panel = panel_id
                        THEN PanelResponse("get_panel_texture", 202, panel_id, NoTexture)
                        ELSE PanelResponse("get_panel_texture", 404, panel_id, NoTexture)
                   ELSE PanelResponse("get_panel_texture", 200, panel_id, texture)
        /\ UNCHANGED packagingVars

\* DELETE /packaging/panels/{panel_id}/texture
delete_panel_texture(panel_id) ==
    /\ packaging_state' = [packaging_state EXCEPT !.panel_textures[panel_id] = NoTexture]
    /\ last' = PanelResponse("delete_panel_texture", 200, panel_id, NoTexture)
    /\ UNCHANGED packaging_tasks

\* POST /demo/seed-packaging with textures for the panels of panel_ids
seed_packaging(panel_ids) ==
    /\ packaging_state' =
           [DefaultPackagingState EXCEPT
               !.package_dimensions = "dimensions",
               !.panel_textures = [panel_id \in PanelIds |->
                                      IF panel_id \in panel_ids
                                      THEN PanelTexture(panel_id, "seeded.png", "Demo texture")
                                      ELSE NoTexture]]
    /\ last' = PanelResponse("seed_packaging", 200, NONE, NoTexture)
    /\ UNCHANGED packaging_tasks

\* the process restarts: the tracked tasks are gone, the persisted state stays
PanelRestart ==
    /\ packaging_tasks # EmptyBag
    /\ packaging_tasks' = EmptyBag
    /\ last' = NoResponse
    /\ UNCHANGED packaging_state

PackagingInit ==
    /\ ProductIdle
    /\ PackagingIdle
    /\ last = NoResponse
    /\ call = NoCall

PackagingNext ==
    \/ /\ \E panel_id \in PanelIds, prompt \in PanelPrompts :
             generate_panel_texture(panel_id, prompt)
       /\ UNCHANGED <<productVars, call>>
    \/ /\ \E task \in PanelTracked : _generate(task)
       /\ UNCHANGED <<productVars, call>>
    \/ /\ \E task \in PanelTracked : PanelDiscard(task)
       /\ UNCHANGED <<productVars, call>>
    \/ /\ \E panel_id \in PanelIds : get_panel_texture(panel_id)
       /\ UNCHANGED <<productVars, call>>
    \/ /\ \E panel_id \in PanelIds : delete_panel_texture(panel_id)
       /\ UNCHANGED <<productVars, call>>
    \/ /\ \E panel_ids \in SUBSET PanelIds : seed_packaging(panel_ids)
       /\ UNCHANGED <<productVars, call>>
    \/ /\ clear_demo
       /\ UNCHANGED call
    \/ /\ PanelRestart
       /\ UNCHANGED <<productVars, call>>

PackagingSpec == PackagingInit /\ [][PackagingNext]_vars

\* a generation task for the panel has been created and has not finished
Generating(panel_id) ==
    \E task \in PanelTracked : task.panel_id = panel_id /\ ~task.done

\* C12: the texture endpoint answers 202 whenever a generation for the panel
\* is running and the panel has no stored texture yet, 404 when the panel has
\* no stored texture and no generation for it is running, and the metadata of
\* the stored texture when there is one.
C12_TextureAnswer ==
    [][\A panel_id \in PanelIds :
          get_panel_texture(panel_id) =>
              LET texture == packaging_state.panel_textures[panel_id]
              IN  /\ (texture = NoTexture /\ Generating(panel_id)) => last'.code = 202
                  /\ (texture = NoTexture /\ ~Generating(panel_id)) => last'.code = 404
                  /\ texture # NoTexture => /\ last'.code = 200
                                            /\ last'.body = texture]_vars

\* the step in which the coroutine of the task ends
Finishes(task) ==
    /\ task \in PanelTracked
    /\ ~task.done
    /\ packaging_tasks' =
           (packaging_tasks (-) SetToBag({task})) (+) SetToBag({[task EXCEPT !.done = TRUE]})

C25_FlagWhileOtherRuns ==
    [][\A task \in PanelTracked :
           (/\ Finishes(task)
            /\ packaging_state.in_progress
            /\ \E other \in PanelTracked : ~other.done /\ other.panel_id # task.panel_id)
           => /\ packaging_state'.in_progress
              /\ packaging_state'.generating_panel # NONE]_vars


(* --------------------- the two generation clients ----------------------- *)

\* the largest image_count a caller asks for
MaxImages == 6

\* settings.GEMINI_API_KEY / settings.FAL_KEY: a key or nothing
ApiKeys == {NONE, "key"}

\* an image string: a data URL or a remote URL; view is the number of the
\* request that produced it, 0 for an image the caller brought
ImageString(data_url, name, view) == [data_url |-> data_url, name |-> name, view |-> view]

\* the reference_images a caller passes; None and [] are both <<>>
ReferenceImages ==
    {<<>>,
     <<ImageString(TRUE, "base", 0)>>,
     <<ImageString(FALSE, "base", 0)>>,
     <<ImageString(TRUE, "base", 0), ImageString(TRUE, "second", 0)>>}

\* the workflows a caller passes
Workflows == {"create", "edit", "variation"}

\* what one generate_content request ends in: a response with inline image
\* data, a response without, or an exception
ContentResults == {"image", "None", "raise"}

\* GeminiImageService(): the constructed object
GeminiImageService__init__(api_key) ==
    /\ call' = [fn |-> "GeminiImageService", api_key |-> api_key, raised |-> NONE,
                client |-> api_key # NONE]

\* TrellisService(): the constructed object
TrellisService__init__(api_key) ==
    /\ call' = [fn |-> "TrellisService", api_key |-> api_key, raised |-> NONE,
                client |-> api_key # NONE]

\* _image_to_part(image_str): a part for a data URL, None for anything else
_image_to_part(image_str) == IF image_str.data_url THEN <<image_str>> ELSE <<>>

\* _extract_first_image(response) for the response of request i + 1
_extract_first_image(result, i) ==
    IF result = "image" THEN <<ImageString(TRUE, "generated", i + 1)>> ELSE <<>>

\* angles: the camera angles of the views
angles ==
    <<"front view at eye level, perfectly centered",
      "45-degree angle from upper right, showing top and right side",
      "side profile view from the left at eye level">>

\* a request that asks for the front view whatever the position
_generate_single_image_FrontOnly(reference_images, i) ==
    [angle_index |-> i,
     angle_description |-> angles[1],
     reference_images |-> reference_images,
     contents |-> IF reference_images # <<>> THEN _image_to_part(reference_images[1])
                  ELSE <<>>]

\* _generate_single_image: the request it sends for the reference_images it
\* is given; only the first reference is converted and attached
_generate_single_image(reference_images, i) ==
    [angle_index |-> i,
     angle_description |-> IF i < Len(angles) THEN angles[i + 1] ELSE "alternate angle",
     reference_images |-> reference_images,
     contents |-> IF reference_images # <<>> THEN _image_to_part(reference_images[1])
                  ELSE <<>>]

\* the reference the loop passes for image i
LoopReference(workflow, reference_images, valid_images, i) ==
    IF workflow = "create"
    THEN IF i = 0 THEN <<>> ELSE SubSeq(valid_images, 1, IF valid_images = <<>> THEN 0 ELSE 1)
    ELSE reference_images

\* a loop that appends whatever a request returned, None included
KeepValid_AppendsNone(valid_images, result, i) ==
    IF result = "raise" THEN valid_images
    ELSE Append(valid_images, IF result = "image" THEN _extract_first_image(result, i)[1]
                              ELSE ImageString(FALSE, NONE, i + 1))

\* valid_images after image i: appended when truthy, skipped when None or raised
KeepValid(valid_images, result, i) ==
    IF result = "image" THEN valid_images \o _extract_first_image(result, i) ELSE valid_images

\* the loop of generate_product_images_sync from image i on: the images it
\* returns and the requests it has sent
RECURSIVE GenerateLoop(_, _, _, _, _, _, _)
GenerateLoop(workflow, image_count, reference_images, results, i, valid_images, requests) ==
    IF i >= image_count
    THEN [images |-> valid_images, requests |-> requests]
    ELSE GenerateLoop(workflow, image_count, reference_images, results, i + 1,
                      KeepValid(valid_images, results[i + 1], i),
                      Append(requests,
                             _generate_single_image(
                                 LoopReference(workflow, reference_images, valid_images, i), i)))

\* generate_product_images_sync(prompt, workflow, image_count, reference_images)
\* on the constructed service, with results[i] the end of the i-th request
generate_product_images_sync(workflow, image_count, reference_images, results) ==
    /\ call.fn = "GeminiImageService"
    /\ LET raised == IF ~call.client THEN "GeminiError"
                     ELSE IF workflow \notin {"create", "edit"} THEN "ValueError"
                     ELSE NONE
           loop == IF raised = NONE
                   THEN GenerateLoop(workflow, image_count, reference_images, results,
                                     0, <<>>, <<>>)
                   ELSE [images |-> <<>>, requests |-> <<>>]
       IN  call' = [fn |-> "generate_product_images_sync", client |-> call.client,
                    api_key |-> call.api_key,
                    workflow |-> workflow, image_count |-> image_count,
                    reference_images |-> reference_images,
                    results |-> IF raised = NONE THEN results ELSE <<>>,
                    raised |-> raised, images |-> loop.images, requests |-> loop.requests]

\* what fal_client.subscribe ends in: an exception, or a result; a result is
\* described by whether it is a dict and by what it holds under "model_mesh"
\* (kind) and there under "url"
SubscribeResult(kind, url) == [kind |-> kind, url |-> url]

SubscribeResults ==
    {SubscribeResult("raise", NONE), SubscribeResult("not a dict", NONE),
     SubscribeResult("no model_mesh", NONE), SubscribeResult("falsy model_mesh", NONE),
     SubscribeResult("dict without url", NONE), SubscribeResult("other", NONE),
     SubscribeResult("dict", "mesh.glb"), SubscribeResult("dict", ""),
     SubscribeResult("dict", NONE), SubscribeResult("str", "mesh.glb")}

\* the image lists a caller passes to generate_3d_asset
MeshImages ==
    {<<>>, <<ImageString(TRUE, "base", 0)>>,
     <<ImageString(TRUE, "base", 0), ImageString(TRUE, "second", 0)>>}

\* the output dict built from the result: <<>> is the empty dict
MeshOutput(result) ==
    IF result.kind \in {"dict", "str"} THEN <<[model_file |-> result.url]>> ELSE <<>>

\* the most queue updates one subscription delivers
MaxUpdates == 3

\* a queue update: its status attribute, NONE when it has none, and the
\* message of its last log, NONE when it has no logs
QueueUpdates ==
    [status : {NONE, "IN_QUEUE", "IN_PROGRESS", "COMPLETED"}, message : {NONE, "sampling"}]

\* the updates of one subscription come in the order queued, in progress,
\* completed; an update without a status is one of a request in progress
UpdateOrder(status) ==
    CASE status = "IN_QUEUE" -> 1 [] status = "COMPLETED" -> 3 [] OTHER -> 2

\* _handle_queue_update(update): <<>> when the callback is not invoked, else
\* the keyword arguments it is invoked with
_handle_queue_update(update, progress_callback) ==
    LET progress_val == CASE update.status = "IN_QUEUE" -> 50
                          [] update.status = "IN_PROGRESS" -> 70
                          [] OTHER -> 60
        status_msg == IF update.message # NONE THEN update.message ELSE update.status
    IN  IF progress_callback /\ status_msg # NONE
        THEN <<[status |-> "generating_model", progress |-> progress_val,
                message |-> status_msg]>>
        ELSE <<>>

\* generate_3d_asset(images, ...) with updates the queue updates delivered
\* during fal_client.subscribe and result its end; without a key the provider
\* refuses the request
generate_3d_asset(images, use_multi_image, progress_callback, updates, result) ==
    /\ call.fn = "TrellisService"
    /\ call.client \/ (result.kind = "raise" /\ updates = <<>>)
    /\ images = <<>> => updates = <<>>
    /\ LET submitted == images # <<>>
           output == IF submitted /\ result.kind # "raise" THEN MeshOutput(result) ELSE <<>>
       IN  call' = [fn |-> "generate_3d_asset", client |-> call.client,
                    api_key |-> call.api_key,
                    images |-> images,
                    use_multi |-> use_multi_image /\ Len(images) > 1,
                    progress_callback |-> progress_callback,
                    updates |-> updates,
                    callbacks |-> [i \in DOMAIN updates |->
                                      _handle_queue_update(updates[i], progress_callback)],
                    submissions |-> IF submitted THEN 1 ELSE 0,
                    result |-> IF submitted THEN result ELSE SubscribeResult("raise", NONE),
                    raised |-> IF output = <<>> THEN "Exception" ELSE NONE,
                    output |-> output]

ClientInit ==
    /\ ProductIdle
    /\ PackagingIdle
    /\ last = NoResponse
    /\ call = NoCall

ClientNext ==
    \/ /\ \E api_key \in ApiKeys : GeminiImageService__init__(api_key)
       /\ UNCHANGED <<productVars, packagingVars, last>>
    \/ /\ \E api_key \in ApiKeys : TrellisService__init__(api_key)
       /\ UNCHANGED <<productVars, packagingVars, last>>
    \/ /\ call.fn = "GeminiImageService"
       /\ \E workflow \in Workflows, image_count \in 0..MaxImages,
             reference_images \in ReferenceImages :
             \E results \in [1..image_count -> ContentResults] :
                 generate_product_images_sync(workflow, image_count, reference_images, results)
       /\ UNCHANGED <<productVars, packagingVars, last>>
    \/ /\ call.fn = "TrellisService"
       /\ \E images \in MeshImages, use_multi_image \in BOOLEAN,
             progress_callback \in BOOLEAN, result \in SubscribeResults,
             updates \in UNION {[1..n -> QueueUpdates] : n \in 0..MaxUpdates} :
             /\ \A i, j \in DOMAIN updates :
                    i < j => UpdateOrder(updates[i].status) <= UpdateOrder(updates[j].status)
             /\ generate_3d_asset(images, use_multi_image, progress_callback, updates, result)
       /\ UNCHANGED <<productVars, packagingVars, last>>
    \/ /\ call.fn \in {"generate_product_images_sync", "generate_3d_asset"}
       /\ call' = [fn |-> IF call.fn = "generate_3d_asset" THEN "TrellisService"
                          ELSE "GeminiImageService",
                   api_key |-> call.api_key, raised |-> NONE, client |-> call.client]
       /\ UNCHANGED <<productVars, packagingVars, last>>

ClientSpec == ClientInit /\ [][ClientNext]_vars


\* a call of generate_product_images_sync has ended
ImagesCalled == call.fn = "generate_product_images_sync"

\* the requests of the call that came back with an image
Succeeded == {i \in DOMAIN call.results : call.results[i] = "image"}

\* the part of C13 that both readings share: a returned list holds exactly
\* the images of the requests that succeeded, in order, so at most image_count
\* and none when all failed; every image of the batch was requested; an
\* unconfigured client raises; a raising call has requested nothing
ImagesContract ==
    /\ call.raised = NONE =>
           /\ Len(call.images) <= call.image_count
           /\ Len(call.requests) = call.image_count
           /\ Len(call.images) = Cardinality(Succeeded)
           /\ \A k \in DOMAIN call.images :
                  /\ call.images[k].view \in Succeeded
                  /\ call.images[k].data_url
                  /\ k > 1 => call.images[k - 1].view < call.images[k].view
    /\ ~call.client => call.raised # NONE
    /\ call.raised # NONE => call.requests = <<>> /\ call.images = <<>>

C14_MissingKeyFailsConstruction ==
    (call.fn \in {"GeminiImageService", "TrellisService"} /\ call.api_key = NONE)
        => call.raised # NONE

\* C15: a call of generate_3d_asset submits at most once, and once whenever it
\* is given images; it either raises or returns an output whose model_file is
\* a non-empty URL; an empty image list, a provider exception and a result
\* without a mesh URL raise.
C15_MeshOrFailure ==
    call.fn = "generate_3d_asset" =>
        /\ call.submissions <= 1
        /\ call.images # <<>> => call.submissions = 1
        /\ call.raised = NONE =>
               /\ call.output # <<>>
               /\ call.output[1].model_file \notin {"", NONE}
        /\ call.images = <<>> => call.raised # NONE
        /\ call.result.kind \notin {"dict", "str"} => call.raised # NONE
        /\ call.result.url \in {"", NONE} => call.raised # NONE

\* C21 as stated: the request at every position of a batch embeds the camera
\* angle of the list of three that its position selects.
C21_Original ==
    (ImagesCalled /\ call.raised = NONE) =>
        \A i \in DOMAIN call.requests :
            /\ \E k \in DOMAIN angles : call.requests[i].angle_description = angles[k]
            /\ i <= 3 => call.requests[i].angle_description = angles[i]

\* C21: the requests at the first three positions of a batch embed the front,
\* the 45-degree and the side view in this order; the request at any later
\* position embeds the text "alternate angle".
C21_AngleByPosition ==
    (ImagesCalled /\ call.raised = NONE) =>
        \A i \in DOMAIN call.requests :
            /\ call.requests[i].angle_index = i - 1
            /\ i = 1 => call.requests[i].angle_description
                             = "front view at eye level, perfectly centered"
            /\ i = 2 => call.requests[i].angle_description
                             = "45-degree angle from upper right, showing top and right side"
            /\ i = 3 => call.requests[i].angle_description
                             = "side profile view from the left at eye level"
            /\ i > 3 => call.requests[i].angle_description = "alternate angle"

\* a batch of six images has been requested
C21_Witness ==
    /\ ImagesCalled
    /\ call.raised = NONE
    /\ Len(call.requests) = 6
    /\ call.requests[6].angle_description = "alternate angle"
    /\ call.requests[3].angle_description = angles[3]

\* C22: across the queue updates of one mesh generation the progress values
\* passed to the callback never decrease, and the callback is invoked only
\* for an update that carries a status or a log message.
C22_ProgressNonDecreasing ==
    call.fn = "generate_3d_asset" =>
        /\ \A i \in DOMAIN call.callbacks :
               call.callbacks[i] # <<>> =>
                   \/ call.updates[i].status # NONE
                   \/ call.updates[i].message # NONE
        /\ \A i, j \in DOMAIN call.callbacks :
               (i < j /\ call.callbacks[i] # <<>> /\ call.callbacks[j] # <<>>)
                   => call.callbacks[i][1].progress <= call.callbacks[j][1].progress

\* the first image of the results the loop holds when it sends request i
FirstSoFar(i) ==
    LET prior == {v \in Succeeded : v < i}
    IN  IF prior = {} THEN <<>>
        ELSE <<ImageString(TRUE, "generated", CHOOSE v \in prior : \A w \in prior : v <= w)>>

\* C20: in the create workflow the first request carries no reference and
\* every later request carries exactly the first image of the results so far;
\* in the edit workflow every request carries the caller's reference images,
\* at the least the first of them.
C20_ReferencePolicy ==
    (ImagesCalled /\ call.raised = NONE) =>
        \A i \in DOMAIN call.requests :
            LET request == call.requests[i]
            IN  /\ request.angle_index = i - 1
                /\ call.workflow = "create" =>
                       /\ i = 1 => request.contents = <<>>
                       /\ i > 1 => request.contents = FirstSoFar(i)
                /\ call.workflow = "edit" =>
                       /\ request.reference_images = call.reference_images
                       /\ request.contents = SubSeq(call.reference_images, 1,
                              IF call.reference_images = <<>> THEN 0 ELSE 1)


(* ------------------------- panel prompt builder ------------------------- *)
(* a prompt is the sequence of its characters                               *)

\* the shortest and the longest prompt validate_user_prompt accepts
MinPromptLength == 3
MaxPromptLength == 2000

\* the characters str.strip() removes from both ends
Whitespace == {" ", "\t", "\n"}

LowerLetters ==
    <<"a", "b", "c", "d", "e", "f", "g", "h", "i", "j", "k", "l", "m",
      "n", "o", "p", "q", "r", "s", "t", "u", "v", "w", "x", "y", "z">>

UpperLetters ==
    <<"A", "B", "C", "D", "E", "F", "G", "H", "I", "J", "K", "L", "M",
      "N", "O", "P", "Q", "R", "S", "T", "U", "V", "W", "X", "Y", "Z">>

\* str.upper(), used to build the prompts a client may type
upper(text) ==
    [i \in DOMAIN text |->
        IF \E k \in DOMAIN LowerLetters : LowerLetters[k] = text[i]
        THEN UpperLetters[CHOOSE k \in DOMAIN LowerLetters : LowerLetters[k] = text[i]]
        ELSE text[i]]

\* str.lower()
lower(text) ==
    [i \in DOMAIN text |->
        IF \E k \in DOMAIN UpperLetters : UpperLetters[k] = text[i]
        THEN LowerLetters[CHOOSE k \in DOMAIN UpperLetters : UpperLetters[k] = text[i]]
        ELSE text[i]]

\* the first position from i on, and the last position up to i, that holds
\* no whitespace
RECURSIVE lstrip_index(_, _)
lstrip_index(text, i) ==
    IF i > Len(text) \/ text[i] \notin Whitespace THEN i ELSE lstrip_index(text, i + 1)

RECURSIVE rstrip_index(_, _)
rstrip_index(text, i) ==
    IF i < 1 \/ text[i] \notin Whitespace THEN i ELSE rstrip_index(text, i - 1)

\* str.strip(): the text between its first and its last non-whitespace character
strip(text) == SubSeq(text, lstrip_index(text, 1), rstrip_index(text, Len(text)))

\* vague_prompts
vague_prompts ==
    {<<"l", "o", "g", "o">>, <<"d", "e", "s", "i", "g", "n">>,
     <<"t", "e", "x", "t", "u", "r", "e">>, <<"p", "a", "t", "t", "e", "r", "n">>,
     <<"c", "o", "o", "l">>, <<"n", "i", "c", "e">>, <<"g", "o", "o", "d">>}

\* the prompts of the requests: a word of the blocklist as typed, in capitals
\* or capitalised, a short text, a text with blanks inside, or a text of a
\* length around the maximum, each with or without whitespace around it
PromptCores ==
    vague_prompts
    \cup {upper(word) : word \in vague_prompts}
    \cup {upper(SubSeq(word, 1, 1)) \o SubSeq(word, 2, Len(word)) : word \in vague_prompts}
    \cup {<<>>, <<"a">>, <<"a", "b">>, <<"a", "b", "c">>, <<"a", " ", "b">>,
          <<"l", "o", "g", "o", "s">>, <<"l", "o", "g">>}
    \cup {[i \in 1..n |-> "x"] : n \in (MaxPromptLength - 2)..(MaxPromptLength + 1)}

Pads == {<<>>, <<" ">>, <<"\n", " ">>}

Prompts == {left \o core \o right : left \in Pads, core \in PromptCores, right \in Pads}

\* a blocklist test that compares the prompt as typed
IsVague_CaseSensitive(prompt) == prompt \in vague_prompts

\* prompt.lower() in vague_prompts
IsVague(prompt) == lower(prompt) \in vague_prompts

\* validate_user_prompt(prompt): the pair (is_valid, error_message)
validate_user_prompt_result(prompt) ==
    LET stripped == strip(prompt)
    IN  IF Len(stripped) < MinPromptLength THEN <<FALSE, "Prompt is too short.">>
        ELSE IF Len(stripped) > MaxPromptLength THEN <<FALSE, "Prompt is too long.">>
        ELSE IF IsVague(stripped) THEN <<FALSE, "Prompt is too vague.">>
        ELSE <<TRUE, NONE>>

\* a call of PanelPromptBuilder.validate_user_prompt
validate_user_prompt(prompt) ==
    LET result == validate_user_prompt_result(prompt)
    IN  call' = [fn |-> "validate_user_prompt", prompt |-> prompt,
                 is_valid |-> result[1], error |-> result[2]]


(* lengths are counted in ten-thousandths of a millimetre, so that          *)
(* int(round(x * 1000)) has something to round                              *)

\* the largest denominator returned as it is, and the one of the fallback
MaxSimpleDenominator == 100
FallbackDenominator == 20

\* the distance below which a common ratio is taken: 0.1
SnapTolerance == <<1, 10>>

\* the panel widths and heights of the requests: 0, 1, 50, 100, 100.0001, 101,
\* 123.1, 123.4567, 150, 200, 244.9 and 300 millimetres
PanelLengths ==
    {0, 10000, 500000, 1000000, 1000001, 1010000, 1231000, 1234567,
     1500000, 2000000, 2449000, 3000000}

\* int(round(x * 1000)): to the nearest thousandth, a tie to the even one
round_thousandths(x) ==
    LET q == x \div 10
        r == x % 10
    IN  IF r < 5 THEN q
        ELSE IF r > 5 THEN q + 1
        ELSE IF q % 2 = 0 THEN q ELSE q + 1

RECURSIVE gcd(_, _)
gcd(a, b) == IF b = 0 THEN a ELSE gcd(b, a % b)

\* Fraction(numerator, denominator), in lowest terms
Fraction(numerator, denominator) ==
    LET g == gcd(numerator, denominator)
    IN  <<numerator \div g, denominator \div g>>

\* |x - y| of two integers
Distance(x, y) == IF x >= y THEN x - y ELSE y - x

\* common_ratios in the order of the dict: the key in hundredths and the label
common_ratios ==
    <<[key |-> 100, label |-> <<1, 1>>], [key |-> 133, label |-> <<4, 3>>],
      [key |-> 150, label |-> <<3, 2>>], [key |-> 160, label |-> <<16, 10>>],
      [key |-> 178, label |-> <<16, 9>>], [key |-> 200, label |-> <<2, 1>>],
      [key |-> 235, label |-> <<21, 9>>]>>

\* abs(x - ratio_value) of a key, over the denominator 100 * ratio[2]
KeyDistance(key, ratio) == Distance(key * ratio[2], 100 * ratio[1])

\* min(common_ratios.keys(), key=...): the first key of the least distance
closest(ratio) ==
    LET best == CHOOSE i \in DOMAIN common_ratios :
                    \A j \in DOMAIN common_ratios :
                        \/ KeyDistance(common_ratios[i].key, ratio)
                               < KeyDistance(common_ratios[j].key, ratio)
                        \/ /\ KeyDistance(common_ratios[i].key, ratio)
                                  = KeyDistance(common_ratios[j].key, ratio)
                           /\ i <= j
    IN  common_ratios[best]

\* the loop of Fraction.limit_denominator and the choice between its bounds
RECURSIVE limit_denominator_loop(_, _, _, _, _, _, _, _)
limit_denominator_loop(p0, q0, p1, q1, n, d, max_denominator, denominator) ==
    LET a == n \div d
        q2 == q0 + a * q1
    IN  IF q2 > max_denominator
        THEN LET k == (max_denominator - q0) \div q1
             IN  IF 2 * d * (q0 + k * q1) <= denominator
                 THEN <<p1, q1>>
                 ELSE <<p0 + k * p1, q0 + k * q1>>
        ELSE limit_denominator_loop(p1, q1, p0 + a * p1, q2, d, n - a * d,
                                    max_denominator, denominator)

\* fraction.limit_denominator(max_denominator)
limit_denominator(fraction, max_denominator) ==
    IF fraction[2] <= max_denominator THEN fraction
    ELSE limit_denominator_loop(0, 1, 1, 0, fraction[1], fraction[2],
                                max_denominator, fraction[2])

\* calculate_aspect_ratio(width, height): the exception it raises, or the two
\* numbers of the string it returns
calculate_aspect_ratio_result(width, height) ==
    IF width <= 0 \/ height <= 0 THEN [raised |-> NONE, ratio |-> <<1, 1>>]
    ELSE LET w_int == round_thousandths(width)
             h_int == round_thousandths(height)
         IN  IF h_int = 0 THEN [raised |-> "ZeroDivisionError", ratio |-> <<>>]
             ELSE LET fraction == Fraction(w_int, h_int)
                      ratio_value == Fraction(width, height)
                      common == closest(ratio_value)
                  IN  [raised |-> NONE,
                       ratio |->
                          IF fraction[2] <= MaxSimpleDenominator THEN fraction
                          ELSE IF KeyDistance(common.key, ratio_value) * SnapTolerance[2]
                                      < SnapTolerance[1] * 100 * ratio_value[2]
                               THEN common.label
                               ELSE limit_denominator(fraction, FallbackDenominator)]

\* a call of PanelPromptBuilder.calculate_aspect_ratio
calculate_aspect_ratio(width, height) ==
    LET result == calculate_aspect_ratio_result(width, height)
    IN  call' = [fn |-> "calculate_aspect_ratio", width |-> width, height |-> height,
                 raised |-> result.raised, ratio |-> result.ratio]

\* a call of PanelPromptBuilder.build_master_prompt: ValueError(error) for a
\* prompt that is not valid, else the prompt with its aspect ratio lock
build_master_prompt(panel_width_mm, panel_height_mm, user_prompt) ==
    LET valid == validate_user_prompt_result(user_prompt)
        aspect == calculate_aspect_ratio_result(panel_width_mm, panel_height_mm)
    IN  call' = [fn |-> "build_master_prompt", prompt |-> user_prompt,
                 width |-> panel_width_mm, height |-> panel_height_mm,
                 is_valid |-> valid[1], error |-> valid[2],
                 raised |-> IF ~valid[1] THEN "ValueError" ELSE aspect.raised,
                 ratio |-> IF valid[1] THEN aspect.ratio ELSE <<>>]

\* the colour names of the pattern of re.search, in the order of the
\* alternation
color_names ==
    <<<<"b", "l", "a", "c", "k">>,
      <<"w", "h", "i", "t", "e">>,
      <<"r", "e", "d">>,
      <<"b", "l", "u", "e">>,
      <<"g", "r", "e", "e", "n">>,
      <<"y", "e", "l", "l", "o", "w">>,
      <<"o", "r", "a", "n", "g", "e">>,
      <<"p", "u", "r", "p", "l", "e">>,
      <<"p", "i", "n", "k">>,
      <<"g", "r", "a", "y">>,
      <<"g", "r", "e", "y">>,
      <<"b", "r", "o", "w", "n">>>>

\* the keywords of is_simple_color besides the colour names
simple_keywords ==
    <<<<"p", "a", "i", "n", "t", " ", "i", "t">>,
      <<"m", "a", "k", "e", " ", "i", "t">>,
      <<"c", "o", "l", "o", "r", " ", "i", "t">>,
      <<"t", "u", "r", "n", " ", "i", "t">>,
      <<"s", "o", "l", "i", "d">>,
      <<"p", "l", "a", "i", "n">>>>

\* the texts a client may send for a panel: a colour as a word, in capitals or
\* lower case, a colour inside a longer word, a keyword without any colour,
\* and a plain design request
PanelTexts ==
    {<<"r", "e", "d">>,
     <<"B", "l", "u", "e", " ", "b", "o", "x">>,
     <<"p", "l", "a", "i", "n", " ", "g", "r", "e", "e", "n">>,
     <<"p", "i", "n", "k", " ", "o", "r", " ", "r", "e", "d">>,
     <<"r", "e", "d", "d", "i", "s", "h", " ", "t", "o", "n", "e">>,
     <<"d", "a", "r", "k", "r", "e", "d">>,
     <<"m", "a", "k", "e", " ", "i", "t", " ", "f", "l", "o", "r", "a", "l">>,
     <<"s", "o", "l", "i", "d">>,
     <<"f", "l", "o", "r", "a", "l", " ", "v", "i", "n", "e", "s">>,
     <<"a", " ", "b", "i", "r", "d">>}

\* keyword in text
Contains(text, keyword) ==
    \E i \in 1..(Len(text) - Len(keyword) + 1) :
        SubSeq(text, i, i + Len(keyword) - 1) = keyword

\* re.search(r'\b(black|...|brown)\b', text): the colour of the leftmost
\* match, a colour name with no word character on either side, or None
re_search(text) ==
    LET word(c) == \/ \E k \in DOMAIN LowerLetters : c \in {LowerLetters[k], UpperLetters[k]}
                   \/ c \in {"0", "1", "2", "3", "4", "5", "6", "7", "8", "9", "_"}
        match(i, k) ==
            /\ i + Len(color_names[k]) - 1 <= Len(text)
            /\ SubSeq(text, i, i + Len(color_names[k]) - 1) = color_names[k]
            /\ i > 1 => ~word(text[i - 1])
            /\ i + Len(color_names[k]) <= Len(text) => ~word(text[i + Len(color_names[k])])
        found == {i \in DOMAIN text : \E k \in DOMAIN color_names : match(i, k)}
    IN  IF found = {} THEN NONE
        ELSE LET first == CHOOSE i \in found : \A j \in found : i <= j
             IN  color_names[CHOOSE k \in DOMAIN color_names :
                                 /\ match(first, k)
                                 /\ \A m \in DOMAIN color_names : match(first, m) => k <= m]

\* an extraction that takes the first colour name found anywhere in the text
extracted_color_Substring(user_lower) ==
    IF \E k \in DOMAIN color_names : Contains(user_lower, color_names[k])
    THEN color_names[CHOOSE k \in DOMAIN color_names :
                         /\ Contains(user_lower, color_names[k])
                         /\ \A m \in DOMAIN color_names :
                                Contains(user_lower, color_names[m]) => k <= m]
    ELSE NONE

\* extracted_color = color_match.group(1) if color_match else None
extracted_color(user_lower) == re_search(user_lower)

\* PanelGenerationService._build_panel_prompt: which of the three
\* instructions the prompt carries, the colour substituted into it, and
\* whether the text of the user is embedded in it
_build_panel_prompt(user_prompt) ==
    LET user_lower == lower(user_prompt)
        color == extracted_color(user_lower)
        is_simple_color ==
            \/ \E k \in DOMAIN color_names : Contains(user_lower, color_names[k])
            \/ \E k \in DOMAIN simple_keywords : Contains(user_lower, simple_keywords[k])
    IN  call' = [fn |-> "_build_panel_prompt", prompt |-> user_prompt,
                 instruction |->
                     IF is_simple_color /\ color # NONE THEN "solid color of the name"
                     ELSE IF is_simple_color THEN "solid color"
                     ELSE "packaging design",
                 color |-> IF is_simple_color THEN color ELSE NONE,
                 embeds_prompt |-> ~(is_simple_color /\ color # NONE)]


PromptInit ==
    /\ ProductIdle
    /\ PackagingIdle
    /\ last = NoResponse
    /\ call = NoCall

\* the caller takes the result; the next call starts from there
Return ==
    /\ call # NoCall
    /\ call' = NoCall

PromptNext ==
    \/ /\ call = NoCall
       /\ \E prompt \in Prompts : validate_user_prompt(prompt)
       /\ UNCHANGED <<productVars, packagingVars, last>>
    \/ /\ call = NoCall
       /\ \E width \in PanelLengths, height \in PanelLengths :
              calculate_aspect_ratio(width, height)
       /\ UNCHANGED <<productVars, packagingVars, last>>
    \/ /\ call = NoCall
       /\ \E user_prompt \in Prompts :
              build_master_prompt(3000000, 2000000, user_prompt)
       /\ UNCHANGED <<productVars, packagingVars, last>>
    \/ /\ call = NoCall
       /\ \E user_prompt \in PanelTexts : _build_panel_prompt(user_prompt)
       /\ UNCHANGED <<productVars, packagingVars, last>>
    \/ /\ Return
       /\ UNCHANGED <<productVars, packagingVars, last>>

PromptSpec == PromptInit /\ [][PromptNext]_vars

\* a call that validated a prompt has ended
Validated == call.fn \in {"validate_user_prompt", "build_master_prompt"}

\* every rejection carries a message and every acceptance none; the builder
\* raises exactly for a rejected prompt
MessageContract ==
    /\ call.is_valid <=> call.error = NONE
    /\ ~call.is_valid => call.error # ""
    /\ call.fn = "build_master_prompt" => (call.raised = "ValueError" <=> ~call.is_valid)

\* C16 as stated: a prompt is rejected exactly when its length is below 3 or
\* above 2000 or it is a word of the blocklist.
C16_Original ==
    Validated =>
        /\ MessageContract
        /\ ~call.is_valid <=>
               \/ Len(call.prompt) < MinPromptLength
               \/ Len(call.prompt) > MaxPromptLength
               \/ call.prompt \in vague_prompts

\* C16: a prompt is rejected exactly when, with the whitespace around it
\* removed, its length is below 3 or above 2000 or it is, whatever its case,
\* a word of the blocklist; a rejection carries a message, an acceptance none.
C16_ValidatePrompt ==
    Validated =>
        /\ MessageContract
        /\ ~call.is_valid <=>
               LET stripped == strip(call.prompt)
               IN  \/ Len(stripped) < MinPromptLength
                   \/ Len(stripped) > MaxPromptLength
                   \/ \E word \in vague_prompts : lower(stripped) = word

\* a rejected prompt that is long enough, not too long and not a word of the
\* blocklist as typed: a blocklist word in capitals with whitespace around it
C16_Witness ==
    /\ Validated
    /\ ~call.is_valid
    /\ Len(call.prompt) >= MinPromptLength
    /\ Len(call.prompt) <= MaxPromptLength
    /\ call.prompt \notin vague_prompts
    /\ Len(strip(call.prompt)) < Len(call.prompt)
    /\ strip(call.prompt) # lower(strip(call.prompt))

\* the ratio w/h of a call, and the distance of the returned N/D from it,
\* over the denominator call.ratio[2] * w/h's denominator
C17_AspectWithinTolerance ==
    (call.fn = "calculate_aspect_ratio" /\ call.width > 0 /\ call.height > 0) =>
        /\ call.raised = NONE
        /\ call.ratio[1] > 0
        /\ call.ratio[2] > 0
        /\ LET exact == Fraction(call.width, call.height)
           IN  Distance(call.ratio[1] * exact[2], call.ratio[2] * exact[1]) * SnapTolerance[2]
                   < SnapTolerance[1] * call.ratio[2] * exact[2]
        /\ (call.width = 3000000 /\ call.height = 2000000) => call.ratio = <<3, 2>>

\* C23 as stated: the live panel prompt carries the solid-colour instruction with the
\* matched colour substituted exactly when the text contains one of the fixed
\* colour names, and for every other text the creative-design instruction
\* that embeds the text of the user.
C23_Original ==
    call.fn = "_build_panel_prompt" =>
        LET named == \E k \in DOMAIN color_names :
                         Contains(lower(call.prompt), color_names[k])
        IN  IF named
            THEN /\ call.instruction = "solid color of the name"
                 /\ call.color # NONE
                 /\ Contains(lower(call.prompt), call.color)
            ELSE /\ call.instruction = "packaging design"
                 /\ call.embeds_prompt

\* the characters that make up a word, and the words of a text: its maximal
\* runs of such characters, in the order of the text
WordCharacters ==
    {LowerLetters[k] : k \in DOMAIN LowerLetters}
    \cup {UpperLetters[k] : k \in DOMAIN UpperLetters}
    \cup {"0", "1", "2", "3", "4", "5", "6", "7", "8", "9", "_"}

RECURSIVE Words(_)
Words(text) ==
    IF text = <<>> THEN <<>>
    ELSE IF Head(text) \notin WordCharacters THEN Words(Tail(text))
    ELSE LET run == CHOOSE n \in 1..Len(text) :
                        /\ \A i \in 1..n : text[i] \in WordCharacters
                        /\ n < Len(text) => text[n + 1] \notin WordCharacters
         IN  <<SubSeq(text, 1, run)>> \o Words(SubSeq(text, run + 1, Len(text)))

ColorWords(text) ==
    SelectSeq(Words(lower(text)), LAMBDA w : \E k \in DOMAIN color_names : color_names[k] = w)

\* C23, amended: the prompt carries the solid-colour instruction of the first
\* colour name that is a whole word of the text, without the text itself,
\* exactly when there is such a word; a text with a colour name inside a
\* longer word or with one of the keywords carries the generic solid-colour
\* instruction, and every other text the creative-design instruction, both
\* with the text embedded.
C23_SolidColorOfWholeWord ==
    call.fn = "_build_panel_prompt" =>
        LET colors == ColorWords(call.prompt)
            keyword == \E k \in DOMAIN simple_keywords :
                           Contains(lower(call.prompt), simple_keywords[k])
            inside == \E k \in DOMAIN color_names :
                          Contains(lower(call.prompt), color_names[k])
        IN  /\ colors # <<>> =>
                /\ call.instruction = "solid color of the name"
                /\ call.color = colors[1]
                /\ ~call.embeds_prompt
            /\ (colors = <<>> /\ (keyword \/ inside)) =>
                /\ call.instruction = "solid color"
                /\ call.embeds_prompt
            /\ (colors = <<>> /\ ~keyword /\ ~inside) =>
                /\ call.instruction = "packaging design"
                /\ call.embeds_prompt

\* a text with a colour name inside a longer word got the generic
\* solid-colour instruction
C23_Witness ==
    /\ call.fn = "_build_panel_prompt"
    /\ ColorWords(call.prompt) = <<>>
    /\ \E k \in DOMAIN color_names : Contains(lower(call.prompt), color_names[k])
    /\ call.instruction = "solid color"


(* ------------------------------ file export ----------------------------- *)

\* the defaults of dimensions.get and the millimetres of a metre
DefaultBoxWidth == 100
DefaultBoxHeight == 150
DefaultBoxDepth == 100
DefaultCylinderWidth == 80
MillimetresPerMetre == 1000

\* shape_state.dimensions: a dict that holds some of the three keys, with
\* the values of one of two packages
ExportDimensions ==
    {[key \in keys |-> package[key]] :
        keys \in SUBSET {"width", "height", "depth"},
        package \in {[width |-> 100, height |-> 150, depth |-> 100],
                     [width |-> 250, height |-> 75, depth |-> 33]}}

\* dimensions.get(key, default)
get(dimensions, key, default) ==
    IF key \in DOMAIN dimensions THEN dimensions[key] ELSE default

\* a conversion that takes the millimetres for centimetres
MillimetresToMetres_Centimetres(mm) == Fraction(mm, 100)

\* mm / 1000.0, as a fraction in lowest terms
MillimetresToMetres(mm) == Fraction(mm, MillimetresPerMetre)

\* _create_box_mesh(dimensions): the extents of the box, which are the sides
\* of its bounding box
_create_box_mesh(dimensions) ==
    [shape |-> "box",
     extents |-> <<MillimetresToMetres(get(dimensions, "width", DefaultBoxWidth)),
                   MillimetresToMetres(get(dimensions, "height", DefaultBoxHeight)),
                   MillimetresToMetres(get(dimensions, "depth", DefaultBoxDepth))>>]

\* _create_cylinder_mesh(dimensions): the diameter and the height
_create_cylinder_mesh(dimensions) ==
    [shape |-> "cylinder",
     extents |-> <<MillimetresToMetres(get(dimensions, "width", DefaultCylinderWidth)),
                   MillimetresToMetres(get(dimensions, "height", DefaultBoxHeight))>>]

\* what scene.save_image ends in: PNG data, no data, an ImportError that
\* names pyglet, another ImportError, or another exception
SaveImageResults == {"png", "empty", "ImportError pyglet", "ImportError", "raise"}

\* what a step that may fail ends in
StepResults == {"ok", "raise"}

\* an inner try block that takes an empty render result for a picture
RenderAttempt_EmptyIsPicture(save_image, decode) ==
    CASE save_image \in {"png", "empty"} -> IF decode = "ok" THEN "rendering" ELSE "raise"
      [] save_image = "ImportError pyglet" -> "fallback"
      [] OTHER -> "raise"

\* the inner try block of _render_jpg: the rendering is written, or the block
\* is left for the fallback, or an exception leaves it
RenderAttempt(save_image, decode) ==
    CASE save_image = "png" -> IF decode = "ok" THEN "rendering" ELSE "raise"
      [] save_image \in {"empty", "ImportError pyglet"} -> "fallback"
      [] OTHER -> "raise"

\* _render_jpg(scene, output_path) in a directory that can be written: the
\* image it leaves at output_path
_render_jpg(geometry, save_image, decode, thumbnail) ==
    IF ~geometry THEN [kind |-> "placeholder", message |-> "No geometry"]
    ELSE LET attempt == RenderAttempt(save_image, decode)
         IN  IF attempt = "rendering" THEN [kind |-> "rendering", message |-> NONE]
             ELSE IF attempt = "fallback" /\ thumbnail = "ok"
                  THEN [kind |-> "thumbnail", message |-> "JPG Preview"]
                  ELSE [kind |-> "placeholder", message |-> "Render failed"]

\* the image of an export that did not get as far as the preview
NoImage == [kind |-> NONE, message |-> NONE]

\* export_package_formats(packaging_state, session_id); written tells whether
\* the STL and OBJ files before the preview could be written
export_package_formats(package_type, dimensions, written, save_image, decode, thumbnail) ==
    call' = [fn |-> "export_package_formats", package_type |-> package_type,
             dimensions |-> dimensions, geometry |-> TRUE,
             save_image |-> save_image, decode |-> decode, thumbnail |-> thumbnail,
             mesh |-> IF package_type = "box" THEN _create_box_mesh(dimensions)
                      ELSE _create_cylinder_mesh(dimensions),
             raised |-> IF written = "ok" THEN NONE ELSE "Exception",
             jpg |-> IF written = "ok" THEN _render_jpg(TRUE, save_image, decode, thumbnail)
                     ELSE NoImage]

\* export_product_formats(product_state, session_id); geometry tells whether
\* the downloaded model holds any
export_product_formats(model_file, geometry, written, save_image, decode, thumbnail) ==
    LET ready == model_file # NONE /\ written = "ok"
    IN  call' = [fn |-> "export_product_formats", model_file |-> model_file,
                 geometry |-> geometry,
                 save_image |-> save_image, decode |-> decode, thumbnail |-> thumbnail,
                 raised |-> IF model_file = NONE THEN "ValueError"
                            ELSE IF written = "ok" THEN NONE ELSE "Exception",
                 jpg |-> IF ready THEN _render_jpg(geometry, save_image, decode, thumbnail)
                         ELSE NoImage]

\* margin of the box layout and of the cylinder layout, in mm
BoxMargin == 20
CylinderMargin == 10

\* the four corners of a panel in the order the path draws them; all
\* coordinates are in thousandths of a millimetre
Panel(left, top, right, bottom) ==
    <<<<left, top>>, <<right, top>>, <<right, bottom>>, <<left, bottom>>>>

\* the box branch of _generate_dieline_svg: the six panels and the viewBox
box_dieline(dimensions) ==
    LET width == 1000 * get(dimensions, "width", DefaultBoxWidth)
        height == 1000 * get(dimensions, "height", DefaultBoxHeight)
        depth == 1000 * get(dimensions, "depth", DefaultBoxDepth)
        margin == 1000 * BoxMargin
        max_x == margin + depth + width + depth + width
        max_y == margin + depth + height + depth
    IN  [paths |->
            <<Panel(margin + depth, margin, margin + depth + width, margin + depth),
              Panel(margin, margin + depth, margin + depth, margin + depth + height),
              Panel(margin + depth, margin + depth,
                    margin + depth + width, margin + depth + height),
              Panel(margin + depth + width, margin + depth,
                    margin + depth + width + depth, margin + depth + height),
              Panel(margin + depth + width + depth, margin + depth,
                    margin + depth + width + depth + width, margin + depth + height),
              Panel(margin + depth, margin + depth + height,
                    margin + depth + width, margin + depth + height + depth)>>,
         view_box |-> <<max_x + margin, max_y + margin>>]

\* the eight points of an end cap: center + cos/sin(i * 2 pi / 8) * width / 2
\* for i = 0..7, the cosine and the sine taken to three decimals
octagon(center_x, center_y, width) ==
    LET cos == <<1000, 707, 0, -707, -1000, -707, 0, 707>>
        sin == <<0, 707, 1000, 707, 0, -707, -1000, -707>>
    IN  [i \in 1..8 |-> <<center_x + (cos[i] * width) \div 2000,
                          center_y + (sin[i] * width) \div 2000>>]

\* the cylinder branch of _generate_dieline_svg: the body, the two end caps
\* and the viewBox; math.pi is taken to six decimals
cylinder_dieline(dimensions) ==
    LET width == 1000 * get(dimensions, "width", DefaultCylinderWidth)
        height == 1000 * get(dimensions, "height", DefaultBoxHeight)
        margin == 1000 * CylinderMargin
        circumference == (3141593 * (width \div 1000)) \div 1000
        bottom_center_y == margin + width \div 2 + height + width \div 2
        max_x == margin + circumference
        max_y == bottom_center_y + width \div 2
    IN  [paths |->
            <<Panel(margin, margin + width \div 2,
                    margin + circumference, margin + width \div 2 + height),
              octagon(margin + circumference \div 2, margin, width),
              octagon(margin + circumference \div 2, bottom_center_y, width)>>,
         view_box |-> <<max_x + margin, max_y + margin>>]

\* _generate_dieline_svg(packaging_state): the outline paths and the viewBox
\* of the SVG, for the package type and the dimensions of the state
_generate_dieline_svg(package_type, dimensions) ==
    LET dieline == IF package_type = "box" THEN box_dieline(dimensions)
                   ELSE cylinder_dieline(dimensions)
    IN  call' = [fn |-> "_generate_dieline_svg", package_type |-> package_type,
                 dimensions |-> dimensions, raised |-> NONE,
                 paths |-> dieline.paths, view_box |-> dieline.view_box]

ExportInit ==
    /\ ProductIdle
    /\ PackagingIdle
    /\ last = NoResponse
    /\ call = NoCall

ExportNext ==
    \/ /\ call = NoCall
       /\ \E package_type \in {"box", "cylinder"}, dimensions \in ExportDimensions,
             written \in StepResults, save_image \in SaveImageResults,
             decode \in StepResults, thumbnail \in StepResults :
              export_package_formats(package_type, dimensions, written, save_image,
                                     decode, thumbnail)
       /\ UNCHANGED <<productVars, packagingVars, last>>
    \/ /\ call = NoCall
       /\ \E model_file \in {NONE, "mesh.glb"}, geometry \in BOOLEAN,
             written \in StepResults, save_image \in SaveImageResults,
             decode \in StepResults, thumbnail \in StepResults :
              export_product_formats(model_file, geometry, written, save_image,
                                     decode, thumbnail)
       /\ UNCHANGED <<productVars, packagingVars, last>>
    \/ /\ call = NoCall
       /\ \E package_type \in {"box", "cylinder"}, dimensions \in ExportDimensions :
              _generate_dieline_svg(package_type, dimensions)
       /\ UNCHANGED <<productVars, packagingVars, last>>
    \/ /\ Return
       /\ UNCHANGED <<productVars, packagingVars, last>>

ExportSpec == ExportInit /\ [][ExportNext]_vars

\* an export has got as far as the preview image
Rendered ==
    /\ call.fn \in {"export_package_formats", "export_product_formats"}
    /\ call.jpg # NoImage

\* C18: an export that gets as far as the preview image never fails there:
\* an image is left at the output path, the rendering when the renderer
\* delivered a picture that could be converted, the placeholder card for a
\* scene without geometry, the thumbnail when the renderer is missing or
\* delivered nothing, and the placeholder card when anything raised.
C18_RenderNeverFails ==
    call.fn \in {"export_package_formats", "export_product_formats"} =>
        /\ call.raised = NONE <=> call.jpg # NoImage
        /\ Rendered =>
               /\ call.jpg.kind \in {"rendering", "thumbnail", "placeholder"}
               /\ call.jpg.kind = "rendering" <=>
                      (call.geometry /\ call.save_image = "png" /\ call.decode = "ok")
               /\ call.jpg.kind = "thumbnail" <=>
                      /\ call.geometry
                      /\ call.save_image \in {"empty", "ImportError pyglet"}
                      /\ call.thumbnail = "ok"
               /\ ~call.geometry => call.jpg.message = "No geometry"

\* an export whose renderer raised an ImportError that does not name pyglet
\* and that still left the placeholder card
C18_Witness ==
    /\ Rendered
    /\ call.geometry
    /\ call.save_image = "ImportError"
    /\ call.raised = NONE
    /\ call.jpg = [kind |-> "placeholder", message |-> "Render failed"]

\* the millimetres a box export reads for a key
BoxMillimetres(key, default) == get(call.dimensions, key, default)

\* C19: the extents of the box mesh are the stored millimetres divided by
\* 1000, with 100, 150 and 100 for a missing width, height and depth; 100 x
\* 150 x 100 gives 0.1 x 0.15 x 0.1.
C19_BoxMeshInMetres ==
    (call.fn = "export_package_formats" /\ call.package_type = "box") =>
        LET extents == call.mesh.extents
        IN  /\ call.mesh.shape = "box"
            /\ Len(extents) = 3
            /\ extents[1][1] * 1000 = BoxMillimetres("width", 100) * extents[1][2]
            /\ extents[2][1] * 1000 = BoxMillimetres("height", 150) * extents[2][2]
            /\ extents[3][1] * 1000 = BoxMillimetres("depth", 100) * extents[3][2]
            /\ \A i \in 1..3 : extents[i][2] > 0
            /\ call.dimensions = [width |-> 100, height |-> 150, depth |-> 100]
                   => extents = <<<<1, 10>>, <<3, 20>>, <<1, 10>>>>

\* a box export of a dict without a depth: the depth of the mesh is 0.1
C19_Witness ==
    /\ call.fn = "export_package_formats"
    /\ call.package_type = "box"
    /\ DOMAIN call.dimensions = {"width", "height"}
    /\ call.dimensions.width = 250
    /\ call.mesh.extents = <<<<1, 4>>, <<3, 40>>, <<1, 10>>>>

\* C30: every outline point of the generated dieline lies inside the viewBox
\* of the SVG (0 <= x <= viewBox width, 0 <= y <= viewBox height), for the
\* six panels of the box net and for the body and the two octagonal end caps
\* of the cylinder layout.
C30_OutlineInsideViewBox ==
    call.fn = "_generate_dieline_svg" =>
        \A p \in DOMAIN call.paths : \A i \in DOMAIN call.paths[p] :
            LET point == call.paths[p][i]
            IN  /\ 0 <= point[1] /\ point[1] <= call.view_box[1]
                /\ 0 <= point[2] /\ point[2] <= call.view_box[2]

====
